---- MODULE Spec2Model ----
(***************************************************************************)
(* Run lifecycle of the agent runtime: the hard-stop cascade               *)
(* (hardStopSessionExecution) and the durable run-recovery store           *)
(* (markRunInFlight / clearRunInFlight / recoverInterruptedRuns).          *)
(*                                                                         *)
(* Strings that the code trims or lower-cases are sequences of one-        *)
(* character strings, so that trim() and toLowerCase() are computed.       *)
(***************************************************************************)
EXTENDS Integers, Sequences, FiniteSets, TLC

\* ------------------------------------------------------------------------
\* Bounds of the model
\* ------------------------------------------------------------------------
MaxProcs == 2
MaxSubRuns == 2
MaxCalls == 2

\* ------------------------------------------------------------------------
\* String helpers (String.prototype.trim)
\* ------------------------------------------------------------------------
WhiteSpace == {" ", "\t"}

RECURSIVE TrimStart(_)
TrimStart(s) ==
  IF s # <<>> /\ Head(s) \in WhiteSpace THEN TrimStart(Tail(s)) ELSE s

RECURSIVE TrimEnd(_)
TrimEnd(s) ==
  IF s # <<>> /\ s[Len(s)] \in WhiteSpace
    THEN TrimEnd(SubSeq(s, 1, Len(s) - 1))
    ELSE s

Trim(s) == TrimEnd(TrimStart(s))

\* the elements of a set of naturals in ascending order
RECURSIVE SortedSeq(_)
SortedSeq(S) ==
  IF S = {} THEN <<>>
  ELSE LET m == CHOOSE x \in S : \A y \in S : x <= y
       IN <<m>> \o SortedSeq(S \ {m})

\* the elements of a sequence
Range(s) == {s[i] : i \in 1..Len(s)}

\* ------------------------------------------------------------------------
\* Hard-stop: state
\* ------------------------------------------------------------------------
VARIABLES
  procs,      \* process registry: registry slot -> ProcessSession
  subRuns,    \* sub-agent registry: run -> descendant run of the root session
  hsPc,       \* position of the hard-stop call: idle / rootWait / childWait / returned / rejected
  hs,         \* locals of the hard-stop call in flight, and its result once returned
  hsLog,      \* events of the process-scope termination in flight, in program order
  hsCalls,    \* number of hard-stop calls invoked so far
  hsHist,     \* what an observer records about the calls (not read by the code)
  hsWatch     \* what the observer records: "order" (hsLog) or "counts" (of hsHist)

hsVars == <<procs, subRuns, hsPc, hs, hsLog, hsCalls, hsHist, hsWatch>>

\* ------------------------------------------------------------------------
\* Run recovery: state
\* ------------------------------------------------------------------------
VARIABLES
  file,       \* gateway/chat-runs.json, the durable store
  clock,      \* Date.now()
  rcPc,       \* position of the recovery pass: idle / awaiting / done
  rc,         \* locals of the recovery pass in flight, and what it did to each entry
  rcPasses,   \* number of recovery passes started so far
  rcResumes,  \* run id -> times resume was invoked for the persisted run (not read by the code)
  rcWatch,    \* which inputs the environment draws: "off", "pass", "restarts", "age", "decision" or "file"
  rcLast      \* the last markRunInFlight or clearRunInFlight: its arguments, the file before and after;
              \* and when each run in flight was first registered

rcVars == <<file, clock, rcPc, rc, rcPasses, rcResumes, rcWatch, rcLast>>

\* ------------------------------------------------------------------------
\* Scheduler: state
\* ------------------------------------------------------------------------
VARIABLES
  cron,       \* the external cron service: its jobs, the latest run of each, the ids handed out
  gtdStore,   \* agent id -> gtd.json, the persisted state of the agent
  wallClock,  \* Date.now() of the scheduler
  timer,      \* line 960: whether timer holds an interval
  running,    \* line 961: the re-entrancy flag of tick
  tickCalls,  \* slot -> locals of a tick invocation in flight
  svcEnv,     \* the host and the timers: start() called, live intervals, last firing
  gsHist,     \* what an observer records about the scheduler (not read by the code)
  gsWatch     \* what is watched: "off", "reconcile", "jobs", "followup", "runs", "restarts",
              \* "faults", "agents", "calendar", "firings" or "lifecycle"

gsVars == <<cron, gtdStore, wallClock, timer, running, tickCalls, svcEnv, gsHist, gsWatch>>

\* ------------------------------------------------------------------------
\* Codex handoff: state
\* ------------------------------------------------------------------------
VARIABLES
  handoffTasks,  \* tracker.ts line 15: the tasks of storeCache, saved to tasks.json at every change
  handoffClock,  \* Date.now() of the tracker
  monitorCron,   \* the cron service of the monitor jobs: the jobs added, the ids handed out
  ensureCalls,   \* slot -> locals of an ensureCodexMonitorCron call in flight
  chHist,        \* what an observer notes of the tracker calls (not read by the code)
  chWatch        \* which behaviours are watched: "off", "tracker" or "monitor"

chVars == <<handoffTasks, handoffClock, monitorCron, ensureCalls, chHist, chWatch>>

vars == <<procs, subRuns, hsPc, hs, hsLog, hsCalls, hsHist, hsWatch,
          file, clock, rcPc, rc, rcPasses, rcResumes, rcWatch, rcLast,
          cron, gtdStore, wallClock, timer, running, tickCalls, svcEnv, gsHist, gsWatch,
          handoffTasks, handoffClock, monitorCron, ensureCalls, chHist, chWatch>>

\* ------------------------------------------------------------------------
\* Run recovery: constants and strings
\* ------------------------------------------------------------------------
CHAT_RUN_RECOVERY_VERSION == 2
MAX_RECOVERY_ATTEMPTS == 3
MAX_RUN_AGE_MS == 2 * 60 * 60000

\* a number that is undefined (recoveryAttempts?, lastRecoveryAtMs?)
Unset == -1

UpperCase ==
  <<"A", "B", "C", "D", "E", "F", "G", "H", "I", "J", "K", "L", "M",
    "N", "O", "P", "Q", "R", "S", "T", "U", "V", "W", "X", "Y", "Z">>
LowerCase ==
  <<"a", "b", "c", "d", "e", "f", "g", "h", "i", "j", "k", "l", "m",
    "n", "o", "p", "q", "r", "s", "t", "u", "v", "w", "x", "y", "z">>

\* String.prototype.toLowerCase
ToLowerChar(c) ==
  IF \E i \in DOMAIN UpperCase : UpperCase[i] = c
    THEN LowerCase[CHOOSE i \in DOMAIN UpperCase : UpperCase[i] = c]
    ELSE c

ToLower(s) == [i \in 1..Len(s) |-> ToLowerChar(s[i])]

\* ------------------------------------------------------------------------
\* Run recovery: the resume decision (lines 167-220)
\* ------------------------------------------------------------------------
\* a stopReason that is not a string
NotAString == <<"undefined">>

\* a message content that is not an array
NotAnArray == <<"string">>

\* block types; "null" is a block that is no object, "none" a block with no type
BlockTypes == {"text", "toolUse", "toolCall", "functionCall", "null", "none"}

containsToolUseBlock(content) ==
  /\ content # NotAnArray
  /\ \E i \in DOMAIN content :
       /\ content[i] \notin {"null", "none"}
       /\ content[i] \in {"toolUse", "toolCall", "functionCall"}

\* lines 183-196, comparing the stop reason as it is written
isCompletedTerminalAssistant_AsWritten(msg) ==
  LET stopReason == IF msg.stopReason # NotAString THEN msg.stopReason ELSE <<>>
  IN IF stopReason \in {<<"s","t","o","p">>,
                        <<"e","n","d","_","t","u","r","n">>,
                        <<"e","n","d","t","u","r","n">>}
       THEN TRUE
     ELSE IF stopReason \in {<<"e","r","r","o","r">>,
                             <<"a","b","o","r","t","e","d">>}
       THEN TRUE
     ELSE IF stopReason \in {<<"t","o","o","l","u","s","e">>,
                             <<"t","o","o","l","_","u","s","e">>,
                             <<"t","o","o","l","_","c","a","l","l","s">>}
       THEN FALSE
     ELSE ~containsToolUseBlock(msg.content)

isCompletedTerminalAssistant(msg) ==
  LET stopReason == IF msg.stopReason # NotAString
                      THEN ToLower(Trim(msg.stopReason)) ELSE <<>>
  IN IF stopReason \in {<<"s","t","o","p">>,
                        <<"e","n","d","_","t","u","r","n">>,
                        <<"e","n","d","t","u","r","n">>}
       THEN TRUE
     ELSE IF stopReason \in {<<"e","r","r","o","r">>,
                             <<"a","b","o","r","t","e","d">>}
       THEN TRUE
     ELSE IF stopReason \in {<<"t","o","o","l","u","s","e">>,
                             <<"t","o","o","l","_","u","s","e">>,
                             <<"t","o","o","l","_","c","a","l","l","s">>}
       THEN FALSE
     ELSE ~containsToolUseBlock(msg.content)

\* what loadSessionEntry and readSessionMessages give for a session key:
\* session: "ok", "noSessionId" or "noStorePath"; messages: "none" or "some";
\* last: the last message ("object" or not), its role, stopReason and content
Transcript(session, messages, kind, role, stopReason, content) ==
  [session |-> session, messages |-> messages, kind |-> kind, role |-> role,
   stopReason |-> stopReason, content |-> content]

shouldResumeFromTranscript(t) ==
  IF t.session # "ok" THEN FALSE
  ELSE IF t.messages = "none" THEN FALSE
  ELSE IF t.kind # "object" THEN FALSE
  ELSE IF t.role \in {"user", "toolResult"} THEN TRUE
  ELSE IF t.role # "assistant" THEN FALSE
  ELSE ~isCompletedTerminalAssistant(t)

\* the stop reasons the environment writes
StopReasons ==
  {NotAString, <<>>,
   <<"s","t","o","p">>, <<" ","S","t","o","p"," ">>,
   <<"e","n","d","_","t","u","r","n">>, <<"E","N","D","_","T","U","R","N">>,
   <<"e","n","d","t","u","r","n">>, <<"e","n","d","T","u","r","n">>,
   <<"e","r","r","o","r">>, <<"a","b","o","r","t","e","d">>,
   <<"t","o","o","l","U","s","e">>,
   <<"t","o","o","l","_","u","s","e">>, <<"T","O","O","L","_","U","S","E">>,
   <<"t","o","o","l","_","c","a","l","l","s">>,
   <<"l","e","n","g","t","h">>}

\* the message contents the environment writes
Contents ==
  {NotAnArray, <<>>, <<"text">>, <<"null">>, <<"none">>, <<"toolUse">>,
   <<"text", "toolCall">>, <<"functionCall">>}

NoMessage == Transcript("ok", "none", "none", "none", NotAString, NotAnArray)
LastUser == Transcript("ok", "some", "object", "user", NotAString, <<"text">>)
LastAssistantStop ==
  Transcript("ok", "some", "object", "assistant", <<"s","t","o","p">>, <<"text">>)

\* every transcript the decision is tried on
AllTranscripts ==
  {Transcript(s, "some", "object", "user", NotAString, <<"text">>) :
     s \in {"ok", "noSessionId", "noStorePath"}}
  \cup {NoMessage, Transcript("ok", "some", "null", "none", NotAString, NotAnArray)}
  \cup {Transcript("ok", "some", "object", r, NotAString, <<"text">>) :
          r \in {"user", "toolResult", "system", "custom"}}
  \cup {Transcript("ok", "some", "object", "assistant", sr, c) :
          sr \in StopReasons, c \in Contents}

\* the transcripts of a recovery pass that is watched for something else
FewTranscripts == {LastUser, LastAssistantStop}

\* ------------------------------------------------------------------------
\* Run recovery: the durable store (lines 14-112)
\* ------------------------------------------------------------------------
\* run ids after trim(), and as callers pass them
RunKeys == {<<"x">>, <<"y">>}
RawRunIds == {<<"x">>, <<" ", "x">>, <<"y">>, <<" ">>}
NoRunId == <<>>
\* the session a run belongs to
SessionKeyOf(runId) == <<"s">> \o runId

Sources == {"chat_send", "whatsapp_auto_reply"}
\* no source (a legacy entry's source, or no params.source)
NoSource == "none"
\* no account id (accountId is undefined)
NoAcct == <<"undefined">>

PersistedGatewayChatRun(runId, sessionKey, source, accountId, startedAt, updatedAt, attempts, lastAt) ==
  [runId |-> runId, sessionKey |-> sessionKey, source |-> source,
   accountId |-> accountId, startedAtMs |-> startedAt, updatedAtMs |-> updatedAt,
   recoveryAttempts |-> attempts, lastRecoveryAtMs |-> lastAt]

\* the file is missing.  json: what the text of the file parses to: "store" (an
\* object with runs), "noRuns" (an object without), "scalar" (no object) or
\* "invalid" (no JSON)
NoFile == [exists |-> FALSE, json |-> "invalid", version |-> 0, runs |-> <<>>]

\* loadJsonFile: undefined when the file is missing or does not parse
loadJsonFile(f) == IF f.exists /\ f.json # "invalid" THEN f ELSE NoFile

\* Map<string, PersistedGatewayChatRun>, in insertion order
MapIndex(runs, runId) ==
  IF \E i \in DOMAIN runs : runs[i].runId = runId
    THEN CHOOSE i \in DOMAIN runs : runs[i].runId = runId
    ELSE 0
MapHas(runs, runId) == MapIndex(runs, runId) # 0
MapGet(runs, runId) == runs[MapIndex(runs, runId)]
MapSet(runs, runId, entry) ==
  IF MapHas(runs, runId)
    THEN [runs EXCEPT ![MapIndex(runs, runId)] = entry]
    ELSE Append(runs, entry)
MapDelete(runs, runId) == SelectSeq(runs, LAMBDA e : e.runId # runId)
MapKeys(runs) == {runs[i].runId : i \in DOMAIN runs}

\* lines 75-98: an entry as it is read from the file
LoadedRun(typed) ==
  [typed EXCEPT
     !.source = IF typed.source \in Sources THEN typed.source ELSE "chat_send",
     !.accountId = IF typed.accountId # NoAcct /\ Trim(typed.accountId) # <<>>
                     THEN Trim(typed.accountId) ELSE NoAcct,
     !.recoveryAttempts = IF @ = Unset THEN Unset ELSE IF @ < 0 THEN 0 ELSE @]

\* lines 65-74: the entry is an object with a runId and a sessionKey
LoadableRun(typed) == typed.runId # NoRunId /\ typed.sessionKey # <<>>

\* lines 54-101 reading a missing source as it is
loadPersistedGatewayChatRuns_KeepingSource(f) ==
  LET raw == loadJsonFile(f)
  IN IF ~raw.exists \/ raw.json = "scalar" THEN <<>>
     ELSE IF raw.json = "noRuns" THEN <<>>
     ELSE LET entries == SelectSeq(raw.runs, LoadableRun)
          IN [i \in DOMAIN entries |->
                [LoadedRun(entries[i]) EXCEPT !.source = entries[i].source]]

loadPersistedGatewayChatRuns(f) ==
  LET raw == loadJsonFile(f)
  IN IF ~raw.exists \/ raw.json = "scalar" THEN <<>>
     ELSE IF raw.json = "noRuns" THEN <<>>
     ELSE LET entries == SelectSeq(raw.runs, LoadableRun)
          IN [i \in DOMAIN entries |-> LoadedRun(entries[i])]

savePersistedGatewayChatRuns(runs) ==
  [exists |-> TRUE, json |-> "store", version |-> CHAT_RUN_RECOVERY_VERSION,
   runs |-> runs]

\* ------------------------------------------------------------------------
\* Run recovery: bounds and inputs
\* ------------------------------------------------------------------------
\* recovery passes of a behaviour, and restarts of the process when they are watched
MaxPasses == 2
MaxRestarts == 4
\* recovery passes of a behaviour while the store file is watched
MaxFilePasses == 1
\* advances of the clock by one millisecond, and by MAX_RUN_AGE_MS
MaxShortTicks == 1
MaxLongTicks == 1

\* the transcript of a session the pass has not come to
NotRead == Transcript("notRead", "none", "none", "none", NotAString, NotAnArray)

RcIdle ==
  [source |-> NoSource, accountId |-> NoAcct, now |-> 0,
   runs |-> <<>>, todo |-> <<>>, changed |-> FALSE, cur |-> NoRunId,
   loaded |-> <<>>, read |-> NoFile,
   transcript |-> [k \in RunKeys |-> NotRead],
   did |-> [k \in RunKeys |-> "none"],
   resumeCalls |-> [k \in RunKeys |-> 0],
   outcome |-> [k \in RunKeys |-> "none"],
   warned |-> {}]

\* no call of markRunInFlight or clearRunInFlight yet
NoStoreCall ==
  [op |-> "none", runId |-> NoRunId, now |-> 0, before |-> NoFile, after |-> NoFile,
   sessionKey |-> <<>>, source |-> NoSource,
   first |-> [k \in RunKeys |-> Unset]]

\* the call is recorded while the file is watched
StoreCall(op, runId, now, before, after) ==
  IF rcWatch = "file"
    THEN [NoStoreCall EXCEPT !.op = op, !.runId = runId, !.now = now,
                             !.before = before, !.after = after]
    ELSE NoStoreCall

\* a run is registered: the time is noted when it is the first time since the
\* run was cleared, expired or dropped; the times are noted while the age is watched
FirstNoted(last, runId, now) ==
  IF rcWatch = "age" /\ runId \in RunKeys /\ last.first[runId] = Unset
    THEN [last EXCEPT !.first[runId] = now]
    ELSE last

\* the runs are cleared, or deleted by a pass as expired or dropped
FirstForgotten(last, runIds) ==
  IF rcWatch = "age"
    THEN [last EXCEPT !.first = [k \in RunKeys |-> IF k \in runIds THEN Unset ELSE @[k]]]
    ELSE last

\* files found at startup: none, one that does not parse, one that holds no
\* object, an object without runs, a version-1 file (entries without source),
\* a version-2 file, one of which an entry has no sessionKey, and a file of a
\* later version
LegacyRun(runId) ==
  PersistedGatewayChatRun(runId, SessionKeyOf(runId), NoSource, NoAcct, 0, 0, Unset, Unset)
StoredRun(runId, source, accountId) ==
  PersistedGatewayChatRun(runId, SessionKeyOf(runId), source, accountId, 0, 0, Unset, Unset)
FilesOnDisk ==
  {NoFile,
   [exists |-> TRUE, json |-> "invalid", version |-> 0, runs |-> <<>>],
   [exists |-> TRUE, json |-> "scalar", version |-> 0, runs |-> <<>>],
   [exists |-> TRUE, json |-> "noRuns", version |-> CHAT_RUN_RECOVERY_VERSION, runs |-> <<>>],
   [exists |-> TRUE, json |-> "store", version |-> 1,
    runs |-> <<LegacyRun(<<"x">>), LegacyRun(<<"y">>)>>],
   [exists |-> TRUE, json |-> "store", version |-> CHAT_RUN_RECOVERY_VERSION,
    runs |-> <<StoredRun(<<"x">>, "chat_send", NoAcct),
               StoredRun(<<"y">>, "whatsapp_auto_reply", <<"a">>)>>],
   [exists |-> TRUE, json |-> "store", version |-> CHAT_RUN_RECOVERY_VERSION,
    runs |-> <<[StoredRun(<<"x">>, "chat_send", NoAcct) EXCEPT !.sessionKey = <<>>],
               StoredRun(<<"y">>, "chat_send", <<" ", "a">>)>>],
   [exists |-> TRUE, json |-> "store", version |-> CHAT_RUN_RECOVERY_VERSION + 1,
    runs |-> <<StoredRun(<<"x">>, "chat_send", NoAcct)>>]}

RcInit(watch) ==
  /\ rcWatch = watch
  /\ file \in (IF watch = "file" THEN FilesOnDisk ELSE {NoFile})
  /\ rcLast = NoStoreCall
  /\ clock = 0
  /\ rcPc = "idle"
  /\ rc = RcIdle
  /\ rcPasses = 0
  /\ rcResumes = [k \in RunKeys |-> 0]

\* the transcripts the environment holds while a pass is watched
TranscriptsWatched == IF rcWatch = "decision" THEN AllTranscripts ELSE FewTranscripts

\* the passes of a behaviour
PassesWatched ==
  IF rcWatch = "restarts" THEN MaxRestarts
  ELSE IF rcWatch = "file" THEN MaxFilePasses
  ELSE MaxPasses

\* the invocations of resume are counted while the restarts are watched
ResumesCounted(n) == IF rcWatch = "restarts" THEN n ELSE 0

\* how resume settles; while the restarts are watched it never succeeds
OutcomesWatched ==
  IF rcWatch = "restarts" THEN {"false", "threw"} ELSE {"true", "false", "threw"}

\* the runs the gateway registers: run x is a chat run, run y a WhatsApp
\* auto-reply run of an account (a chat run while the restarts are watched)
MarkInputs ==
  IF rcWatch = "decision"
    THEN {[runId |-> <<"x">>, source |-> "chat_send", accountId |-> NoAcct]}
  ELSE IF rcWatch = "file"
    THEN {[runId |-> <<" ", "x">>, source |-> "chat_send", accountId |-> NoAcct],
          [runId |-> <<"y">>, source |-> "whatsapp_auto_reply", accountId |-> <<"a">>],
          [runId |-> <<" ">>, source |-> "chat_send", accountId |-> NoAcct],
          [runId |-> <<"x">>, source |-> NoSource, accountId |-> NoAcct]}
  ELSE IF rcWatch \in {"restarts", "age"}
    THEN [runId : {<<"x">>, <<"y">>}, source : {"chat_send"}, accountId : {NoAcct}]
    ELSE [runId : {<<" ", "x">>}, source : {"chat_send"},
          accountId : {NoAcct, <<"a">>}]
         \cup [runId : {<<"y">>}, source : {"whatsapp_auto_reply"},
               accountId : {<<" ", "a">>, <<"b">>}]
         \cup {[runId |-> <<" ">>, source |-> "chat_send", accountId |-> NoAcct],
               [runId |-> <<"x">>, source |-> NoSource, accountId |-> NoAcct]}

\* the session keys a run is registered with: the key of its session, and a
\* blank one while the file is watched
SessionKeysGiven(in) ==
  IF rcWatch = "file"
    THEN {SessionKeyOf(Trim(in.runId)), <<" ">>}
    ELSE {SessionKeyOf(Trim(in.runId))}

\* the filters recovery is called with
RecoverInputs ==
  IF rcWatch = "decision"
    THEN {[source |-> NoSource, accountId |-> NoAcct]}
  ELSE IF rcWatch = "file"
    THEN [source : {NoSource} \cup Sources, accountId : {NoAcct}]
  ELSE IF rcWatch \in {"restarts", "age"}
    THEN {[source |-> "chat_send", accountId |-> NoAcct]}
    ELSE [source : {NoSource} \cup Sources, accountId : {NoAcct, <<"a">>}]

\* ------------------------------------------------------------------------
\* Run recovery: markRunInFlight, clearRunInFlight (lines 114-153)
\* ------------------------------------------------------------------------
\* lines 114-141 with startedAtMs set to now whether or not the run is persisted
markRunInFlight_RestartingAge(f, now, rawRunId, rawSessionKey, source, rawAccountId) ==
  LET runId == Trim(rawRunId)
      sessionKey == Trim(rawSessionKey)
      accountId == IF rawAccountId = NoAcct THEN NoAcct ELSE Trim(rawAccountId)
      runs == loadPersistedGatewayChatRuns(f)
      had == MapHas(runs, runId)
      existing == MapGet(runs, runId)
  IN IF runId = <<>> \/ sessionKey = <<>> \/ source = NoSource
       THEN f
       ELSE savePersistedGatewayChatRuns(
              MapSet(runs, runId,
                PersistedGatewayChatRun(runId, sessionKey, source, accountId,
                  now,
                  now,
                  IF had THEN existing.recoveryAttempts ELSE Unset,
                  IF had THEN existing.lastRecoveryAtMs ELSE Unset)))

\* lines 120-141 without the test of sessionKey at line 124
markRunInFlight_AnySessionKey(f, now, rawRunId, rawSessionKey, source, rawAccountId) ==
  LET runId == Trim(rawRunId)
      sessionKey == Trim(rawSessionKey)
      accountId == IF rawAccountId = NoAcct THEN NoAcct ELSE Trim(rawAccountId)
      runs == loadPersistedGatewayChatRuns(f)
      had == MapHas(runs, runId)
      existing == MapGet(runs, runId)
  IN IF runId = <<>> \/ source = NoSource
       THEN f
       ELSE savePersistedGatewayChatRuns(
              MapSet(runs, runId,
                PersistedGatewayChatRun(runId, sessionKey, source, accountId,
                  IF had THEN existing.startedAtMs ELSE now,
                  now,
                  IF had THEN existing.recoveryAttempts ELSE Unset,
                  IF had THEN existing.lastRecoveryAtMs ELSE Unset)))

markRunInFlight(f, now, rawRunId, rawSessionKey, source, rawAccountId) ==
  LET runId == Trim(rawRunId)
      sessionKey == Trim(rawSessionKey)
      accountId == IF rawAccountId = NoAcct THEN NoAcct ELSE Trim(rawAccountId)
      runs == loadPersistedGatewayChatRuns(f)
      had == MapHas(runs, runId)
      existing == MapGet(runs, runId)
  IN IF runId = <<>> \/ sessionKey = <<>> \/ source = NoSource
       THEN f
       ELSE savePersistedGatewayChatRuns(
              MapSet(runs, runId,
                PersistedGatewayChatRun(runId, sessionKey, source, accountId,
                  IF had THEN existing.startedAtMs ELSE now,
                  now,
                  IF had THEN existing.recoveryAttempts ELSE Unset,
                  IF had THEN existing.lastRecoveryAtMs ELSE Unset)))

\* lines 143-153 without the trim() of line 144
clearRunInFlight_Untrimmed(f, runIdRaw) ==
  LET runId == runIdRaw
      runs == loadPersistedGatewayChatRuns(f)
  IN IF runId = <<>> THEN f
     ELSE IF ~MapHas(runs, runId) THEN f
     ELSE savePersistedGatewayChatRuns(MapDelete(runs, runId))

clearRunInFlight(f, runIdRaw) ==
  LET runId == Trim(runIdRaw)
      runs == loadPersistedGatewayChatRuns(f)
  IN IF runId = <<>> THEN f
     ELSE IF ~MapHas(runs, runId) THEN f
     ELSE savePersistedGatewayChatRuns(MapDelete(runs, runId))

\* the store is written between passes and while a pass awaits resume
RcEnvMayAct == rcPc \in {"idle", "awaiting"}

\* a run begins: the gateway registers it
MarkRunInFlight ==
  \E in \in MarkInputs : \E rawSessionKey \in SessionKeysGiven(in) :
    /\ RcEnvMayAct
    /\ file' = markRunInFlight(file, clock, in.runId, rawSessionKey,
                               in.source, in.accountId)
    \* a run registered anew has not been resumed yet
    /\ rcResumes' = IF in.source # NoSource /\ Trim(in.runId) \in RunKeys
                       /\ Trim(rawSessionKey) # <<>>
                       /\ ~MapHas(loadPersistedGatewayChatRuns(file), Trim(in.runId))
                      THEN [rcResumes EXCEPT ![Trim(in.runId)] = 0]
                      ELSE rcResumes
    /\ rcLast' = [FirstNoted(IF rcWatch = "age" THEN rcLast
                               ELSE StoreCall("mark", in.runId, clock, file, file'),
                              IF in.source # NoSource /\ Trim(rawSessionKey) # <<>>
                                THEN Trim(in.runId) ELSE NoRunId,
                              clock)
                    EXCEPT !.sessionKey = IF rcWatch = "file" THEN rawSessionKey ELSE @,
                           !.source = IF rcWatch = "file" THEN in.source ELSE @]
    /\ UNCHANGED <<clock, rcPc, rc, rcPasses, rcWatch, hsVars, gsVars, chVars>>

\* a run completes: the gateway clears it
ClearRunInFlight ==
  \E runIdRaw \in RawRunIds :
    /\ RcEnvMayAct
    /\ file' = clearRunInFlight(file, runIdRaw)
    /\ rcLast' = FirstForgotten(IF rcWatch = "age" THEN rcLast
                                  ELSE StoreCall("clear", runIdRaw, clock, file, file'),
                                 {Trim(runIdRaw)})
    /\ UNCHANGED <<clock, rcPc, rc, rcPasses, rcResumes, rcWatch, hsVars, gsVars, chVars>>

\* time passes: a millisecond
TickShort ==
  /\ RcEnvMayAct
  /\ clock % MAX_RUN_AGE_MS < MaxShortTicks
  /\ clock' = clock + 1
  /\ UNCHANGED <<file, rcPc, rc, rcPasses, rcResumes, rcWatch, rcLast, hsVars, gsVars, chVars>>

\* time passes: as long as a run may age
TickLong ==
  /\ RcEnvMayAct
  /\ clock \div MAX_RUN_AGE_MS < MaxLongTicks
  /\ clock' = clock + MAX_RUN_AGE_MS
  /\ UNCHANGED <<file, rcPc, rc, rcPasses, rcResumes, rcWatch, rcLast, hsVars, gsVars, chVars>>

\* ------------------------------------------------------------------------
\* Run recovery: recoverInterruptedRuns (lines 222-281)
\* ------------------------------------------------------------------------
\* lines 239-244: the entry passes the filters of the call
RcSelected(r, entry) ==
  /\ ~(r.source # NoSource /\ entry.source # r.source)
  /\ ~(r.accountId \notin {NoAcct, <<>>} /\ entry.accountId # r.accountId)

RcAttempts(entry) ==
  IF entry.recoveryAttempts = Unset THEN 0 ELSE entry.recoveryAttempts

\* lines 245-247 with the attempts compared by > in place of >=
RcExpired_OneAttemptLate(r, entry) ==
  LET ageMs == r.now - entry.startedAtMs
  IN ageMs > MAX_RUN_AGE_MS \/ RcAttempts(entry) > MAX_RECOVERY_ATTEMPTS

\* lines 245-247
RcExpired(r, entry) ==
  LET ageMs == r.now - entry.startedAtMs
  IN ageMs > MAX_RUN_AGE_MS \/ RcAttempts(entry) >= MAX_RECOVERY_ATTEMPTS

\* lines 258-261 without line 259: the attempt is not counted
RcBumped_KeepingAttempts(r, entry) ==
  [entry EXCEPT !.lastRecoveryAtMs = r.now,
                !.updatedAtMs = r.now]

\* lines 258-261 without lines 260-261: the times of the attempt are not set
RcBumped_KeepingTimes(r, entry) ==
  [entry EXCEPT !.recoveryAttempts = RcAttempts(entry) + 1]

\* lines 258-261: the entry is changed in place before resume is called
RcBumped(r, entry) ==
  [entry EXCEPT !.recoveryAttempts = RcAttempts(entry) + 1,
                !.lastRecoveryAtMs = r.now,
                !.updatedAtMs = r.now]

\* lines 238-267: the loop from the next entry up to the next call of resume, or
\* to its end.  ts: the transcript of each run's session when the loop comes to
\* the run; transcript, did and resumeCalls record what the pass met and did.
RECURSIVE RcLoop(_, _)
RcLoop(r, ts) ==
  IF r.todo = <<>> THEN r
  ELSE
    LET runId == Head(r.todo)
        entry == MapGet(r.runs, runId)
        next == [r EXCEPT !.todo = Tail(@), !.transcript[runId] = ts[runId]]
    IN IF ~RcSelected(r, entry)
         THEN RcLoop([next EXCEPT !.did[runId] = "skipped"], ts)
       ELSE IF RcExpired(r, entry)
         THEN RcLoop([next EXCEPT !.runs = MapDelete(@, runId),
                                  !.changed = TRUE,
                                  !.did[runId] = "expired"], ts)
       ELSE IF ~shouldResumeFromTranscript(ts[runId])
         THEN RcLoop([next EXCEPT !.runs = MapDelete(@, runId),
                                  !.changed = TRUE,
                                  !.did[runId] = "dropped"], ts)
       ELSE [next EXCEPT !.runs = MapSet(@, runId, RcBumped(r, entry)),
                         !.changed = TRUE,
                         !.cur = runId,
                         !.did[runId] = "resumed",
                         !.resumeCalls[runId] = @ + 1]

\* the same with the save of lines 278-280 moved into the loop, after line 275
RcContinue_SavingEachEntry(r, ts) ==
  LET out == RcLoop(r, ts)
  IN IF out.cur # NoRunId
       THEN /\ rcPc' = "awaiting"
            /\ rc' = out
            /\ file' = savePersistedGatewayChatRuns(out.runs)
            /\ rcResumes' = [rcResumes EXCEPT ![out.cur] = ResumesCounted(@ + 1)]
       ELSE /\ rcPc' = "done"
            /\ rc' = out
            /\ file' = IF out.changed THEN savePersistedGatewayChatRuns(out.runs) ELSE file
            /\ rcResumes' = rcResumes

\* the pass goes on until it awaits resume (line 267) or ends (lines 278-280)
RcContinue(r, ts) ==
  LET out == RcLoop(r, ts)
  IN IF out.cur # NoRunId
       THEN /\ rcPc' = "awaiting"
            /\ rc' = out
            /\ file' = file
            /\ rcResumes' = [rcResumes EXCEPT ![out.cur] = ResumesCounted(@ + 1)]
       ELSE /\ rcPc' = "done"
            /\ rc' = out
            /\ file' = IF out.changed THEN savePersistedGatewayChatRuns(out.runs) ELSE file
            /\ rcResumes' = rcResumes

\* what the observer notes when a step of the pass ends it: the runs the pass
\* deleted as expired or dropped are in flight no more
PassNoted(last, pc, r) ==
  IF pc = "done"
    THEN FirstForgotten(last, {k \in RunKeys : r.did[k] \in {"expired", "dropped"}})
    ELSE last

\* lines 231-267: a pass starts
recoverInterruptedRuns(source, accountId, ts) ==
  LET runs == loadPersistedGatewayChatRuns(file)
      r == [RcIdle EXCEPT
              !.source = source, !.accountId = accountId, !.now = clock,
              !.runs = runs, !.loaded = runs, !.read = file,
              !.todo = [i \in DOMAIN runs |-> runs[i].runId]]
  IN
  /\ rcPc = "idle"
  /\ rcPasses < PassesWatched
  /\ rcPasses' = rcPasses + 1
  /\ RcContinue(r, ts)
  /\ rcLast' = PassNoted(rcLast, rcPc', rc')
  /\ UNCHANGED <<clock, rcWatch, hsVars, gsVars, chVars>>

RecoverInterruptedRuns ==
  \E in \in RecoverInputs :
    \E ts \in [MapKeys(loadPersistedGatewayChatRuns(file)) -> TranscriptsWatched] :
      recoverInterruptedRuns(in.source, in.accountId, ts)

\* lines 267-280: resume settles (true, false, or a rejection caught at 267-270)
\* and the pass goes on
ResumeSettles ==
  \E outcome \in OutcomesWatched :
    \E ts \in [Range(rc.todo) -> TranscriptsWatched] :
      /\ rcPc = "awaiting"
      /\ RcContinue([rc EXCEPT !.outcome[rc.cur] = outcome, !.cur = NoRunId,
                                !.warned = IF outcome = "threw" THEN @ \cup {rc.cur} ELSE @],
                    ts)
      /\ rcLast' = PassNoted(rcLast, rcPc', rc')
      /\ UNCHANGED <<clock, rcPasses, rcWatch, hsVars, gsVars, chVars>>

\* the promise of recoverInterruptedRuns resolves
RecoverReturns ==
  /\ rcPc = "done"
  /\ rcPc' = "idle"
  /\ rc' = RcIdle
  /\ UNCHANGED <<file, clock, rcPasses, rcResumes, rcWatch, rcLast, hsVars, gsVars, chVars>>

\* the process dies while the pass awaits resume, and is started again: what
\* the pass held in memory is gone, the file is as it was last written
ProcessCrashes ==
  /\ rcPc = "awaiting"
  /\ rcPc' = "idle"
  /\ rc' = RcIdle
  /\ UNCHANGED <<file, clock, rcPasses, rcResumes, rcWatch, rcLast, hsVars, gsVars, chVars>>

RcNext ==
  \/ MarkRunInFlight
  \/ ClearRunInFlight
  \/ TickShort
  \/ RecoverInterruptedRuns
  \/ ResumeSettles
  \/ RecoverReturns

RcRestartsNext ==
  \/ MarkRunInFlight
  \/ TickShort
  \/ TickLong
  \/ RecoverInterruptedRuns
  \/ ResumeSettles
  \/ RecoverReturns
  \/ ProcessCrashes

RcAgeNext ==
  \/ MarkRunInFlight
  \/ TickShort
  \/ TickLong
  \/ RecoverInterruptedRuns
  \/ ResumeSettles
  \/ RecoverReturns

RcDecisionNext ==
  \/ MarkRunInFlight
  \/ RecoverInterruptedRuns
  \/ ResumeSettles
  \/ RecoverReturns

RcFileNext ==
  \/ MarkRunInFlight
  \/ ClearRunInFlight
  \/ TickShort
  \/ RecoverInterruptedRuns
  \/ ResumeSettles
  \/ RecoverReturns
  \/ ProcessCrashes

\* ------------------------------------------------------------------------
\* Scheduler: constants, keys and desired jobs (review.ts lines 239-460)
\* ------------------------------------------------------------------------
RECONCILE_INTERVAL_MS == 60000
DAY_MS == 24 * 60 * 60 * 1000
JOB_NAMESPACE == "gtd"

\* String.prototype.startsWith; a key is a sequence of its parts
StartsWith(s, prefix) == Len(s) >= Len(prefix) /\ SubSeq(s, 1, Len(prefix)) = prefix

\* Math.max(lo, Math.min(hi, n))
Clamp(lo, hi, n) == IF n < lo THEN lo ELSE IF n > hi THEN hi ELSE n

\* schema.ts lines 331-333: trimmed, lower-cased, all white space removed
normalizeAllowlistKey(input) ==
  ToLower(SelectSeq(input, LAMBDA c : c \notin WhiteSpace))

\* autonomy.followup.autoSendAllowlist as the configuration file has it
AutoSendAllowlist == << <<" ", "T", ":", ":", "b">>, <<" ">> >>

\* schema.ts lines 340-396: the resolved plugin configuration (its defaults)
PluginConfig ==
  [mode |-> "always_on",
   autonomy |-> [followup |-> [autoSendAllowlist |->
     SelectSeq([i \in DOMAIN AutoSendAllowlist |->
                  normalizeAllowlistKey(AutoSendAllowlist[i])],
               LAMBDA key : key # <<>>)]],
   review |-> [dailyInboxZero |-> [hour |-> 16, minute |-> 30, weekdaysOnly |-> TRUE],
               weekly |-> [dayOfWeek |-> 5, hour |-> 15, minute |-> 0],
               horizons |-> [dayOfMonth |-> 1, hour |-> 9, minute |-> 0]],
   calendar |-> [syncIntervalMinutes |-> 30]]

\* agents.list of the configuration: the ids as they are written
AgentList == << <<" ", "A">>, <<"b">> >>

\* the elements of a sequence once each, in the order of their first occurrence
RECURSIVE Unique(_)
Unique(s) ==
  IF s = <<>> THEN <<>>
  ELSE LET rest == Unique(SubSeq(s, 1, Len(s) - 1))
       IN IF s[Len(s)] \in Range(rest) THEN rest ELSE Append(rest, s[Len(s)])

\* store.ts: the ids trimmed and lower-cased, the empty ones dropped, once each
listConfiguredAgentIds(list) ==
  LET ids == SelectSeq([i \in DOMAIN list |-> ToLower(Trim(list[i]))],
                       LAMBDA id : id # <<>>)
  IN IF ids = <<>> THEN << <<"main">> >> ELSE Unique(ids)

\* line 937
SafeAgentId(agentId) ==
  IF ToLower(Trim(agentId)) = <<>> THEN <<"main">> ELSE ToLower(Trim(agentId))

resolveTimezone == "Europe/Amsterdam"

\* params.dayOfWeek, params.dayOfMonth: Unset when not given
buildRecurringCronExpr(hour, minute, dayOfWeek, dayOfMonth, weekdaysOnly) ==
  LET m == Clamp(0, 59, minute)
      h == Clamp(0, 23, hour)
  IN IF dayOfMonth # Unset THEN <<m, h, Clamp(1, 28, dayOfMonth), "*", "*">>
     ELSE IF dayOfWeek # Unset THEN <<m, h, "*", "*", Clamp(0, 6, dayOfWeek)>>
     ELSE IF weekdaysOnly THEN <<m, h, "*", "*", "1-5">>
     ELSE <<m, h, "*", "*", "*">>

buildJobKey(agentId, suffix) == <<JOB_NAMESPACE, ":">> \o agentId \o <<":">> \o suffix

\* Date.prototype.toISOString
toISOString(ms) == <<"iso", ms>>

buildBaseCronJob(key, agentId, schedule, deleteAfterRun) ==
  LET payload == [kind |-> "agentTurn", message |-> key, deliver |-> FALSE]
  IN [key |-> key,
      create |-> [name |-> key, enabled |-> TRUE, deleteAfterRun |-> deleteAfterRun,
                  schedule |-> schedule, sessionTarget |-> "isolated",
                  wakeMode |-> "now", payload |-> payload,
                  delivery |-> [mode |-> "none"], agentId |-> agentId,
                  sessionKey |-> buildJobKey(agentId, <<"scheduler">>)],
      patch |-> [name |-> key, enabled |-> TRUE, deleteAfterRun |-> deleteAfterRun,
                 schedule |-> schedule, sessionTarget |-> "isolated",
                 wakeMode |-> "now", payload |-> payload,
                 delivery |-> [mode |-> "none"]]]

\* Math.max
Max(a, b) == IF a >= b THEN a ELSE b

\* lines 435-439
CalendarSyncSchedule(now) ==
  [kind |-> "every",
   everyMs |-> Max(5, PluginConfig.calendar.syncIntervalMinutes) * 60 * 1000,
   anchorMs |-> now + 60000]

\* lines 443-457: the one-shot job of an active waiting item
WaitingJob(agentId, waiting, now) ==
  LET atMs == Max(waiting.followupAtMs, now + 1000)
  IN buildBaseCronJob(buildJobKey(agentId, <<"waiting", ":">> \o waiting.id), agentId,
                      [kind |-> "at", at |-> toISOString(atMs)], TRUE)

buildDesiredCronJobs(agentId, state, now) ==
  LET review == PluginConfig.review
      activeWaiting == SelectSeq(state.waitingFor, LAMBDA item : item.status = "active")
  IN << buildBaseCronJob(buildJobKey(agentId, <<"daily-review">>), agentId,
          [kind |-> "cron",
           expr |-> buildRecurringCronExpr(review.dailyInboxZero.hour,
                      review.dailyInboxZero.minute, Unset, Unset,
                      review.dailyInboxZero.weekdaysOnly),
           tz |-> resolveTimezone], FALSE),
        buildBaseCronJob(buildJobKey(agentId, <<"weekly-review">>), agentId,
          [kind |-> "cron",
           expr |-> buildRecurringCronExpr(review.weekly.hour, review.weekly.minute,
                      review.weekly.dayOfWeek, Unset, FALSE),
           tz |-> resolveTimezone], FALSE),
        buildBaseCronJob(buildJobKey(agentId, <<"horizons-review">>), agentId,
          [kind |-> "cron",
           expr |-> buildRecurringCronExpr(review.horizons.hour, review.horizons.minute,
                      Unset, review.horizons.dayOfMonth, FALSE),
           tz |-> resolveTimezone], FALSE),
        buildBaseCronJob(buildJobKey(agentId, <<"calendar-sync">>), agentId,
          CalendarSyncSchedule(now), FALSE) >>
     \o [i \in DOMAIN activeWaiting |-> WaitingJob(agentId, activeWaiting[i], now)]

\* ------------------------------------------------------------------------
\* Scheduler: the external cron service, as the gateway calls reach it
\* ------------------------------------------------------------------------
\* cron.runs of a job that has not run: no entries
NoEntries == [runAtMs |-> Unset, ts |-> Unset, status |-> "none"]

\* no job yet; ids are handed out in ascending order
NoCron == [jobs |-> <<>>, runs |-> <<>>, seq |-> 0, fired |-> 0, added |-> 0]

\* cron.add: the job is stored as given, under a new id
cronAdd(c, create) ==
  [c EXCEPT !.seq = c.seq + 1,
            !.jobs = Append(c.jobs, [id |-> c.seq + 1] @@ create),
            !.runs = Append(c.runs, NoEntries)]

\* cron.update: the fields of the patch replace the job's
cronUpdate(c, id, patch) ==
  [c EXCEPT !.jobs = [i \in DOMAIN c.jobs |->
                        IF c.jobs[i].id = id THEN patch @@ c.jobs[i] ELSE c.jobs[i]]]

\* cron.remove
cronRemove(c, id) ==
  [c EXCEPT !.jobs = SelectSeq(c.jobs, LAMBDA job : job.id # id)]

\* cron.runs with limit 1: the latest run of the job
cronRuns(c, id) == IF id \in DOMAIN c.runs THEN c.runs[id] ELSE NoEntries

\* lines 462-494: cron.list, each job reduced to the fields the reconciler reads
callCronList(c) ==
  [i \in DOMAIN c.jobs |->
     [id |-> c.jobs[i].id, name |-> c.jobs[i].name,
      enabled |-> c.jobs[i].enabled = TRUE,
      deleteAfterRun |-> c.jobs[i].deleteAfterRun = TRUE,
      schedule |-> c.jobs[i].schedule, sessionTarget |-> c.jobs[i].sessionTarget,
      wakeMode |-> c.jobs[i].wakeMode, payload |-> c.jobs[i].payload,
      delivery |-> c.jobs[i].delivery]]

\* lines 496-520: stable(current) === stable(expected)
jobMatchesDesired(job, desired) ==
  [name |-> job.name, enabled |-> job.enabled = TRUE,
   deleteAfterRun |-> job.deleteAfterRun = TRUE, schedule |-> job.schedule,
   sessionTarget |-> job.sessionTarget, wakeMode |-> job.wakeMode,
   payload |-> job.payload, delivery |-> job.delivery]
  = [name |-> desired.key, enabled |-> TRUE,
     deleteAfterRun |-> desired.patch.deleteAfterRun = TRUE,
     schedule |-> desired.patch.schedule,
     sessionTarget |-> desired.patch.sessionTarget,
     wakeMode |-> desired.patch.wakeMode, payload |-> desired.patch.payload,
     delivery |-> desired.patch.delivery]

\* ------------------------------------------------------------------------
\* Scheduler: the persisted state of an agent (schema.ts lines 185-237, 398-432)
\* ------------------------------------------------------------------------
\* scheduler.lastError is undefined
NoError == "undefined"

\* createDefaultState, of the parts the scheduler reads and writes
DefaultState ==
  [waitingFor |-> <<>>, inboxItems |-> <<>>, commitments |-> <<>>, actions |-> <<>>,
   scheduler |-> [jobs |-> <<>>, lastProcessedRuns |-> <<>>,
                  lastReconciledAtMs |-> Unset, lastError |-> NoError]]

\* schema.ts lines 19-25; accountId "" when it is not given
DeliveryTarget(channel, to) == [channel |-> channel, to |-> to, accountId |-> <<>>]

\* deliveryTarget: <<>> when the item has none, else the target alone
WaitingForItem(id, followupAtMs, followupCadenceDays) ==
  [id |-> id, status |-> "active", followupAtMs |-> followupAtMs,
   followupCadenceDays |-> followupCadenceDays,
   deliveryTarget |-> <<DeliveryTarget(<<"t">>, <<"b">>)>>,
   lastFollowupAtMs |-> Unset]

\* lines 522-526
updateSchedulerJobRefs(state, refs, now) ==
  [state EXCEPT !.scheduler.jobs = refs,
                !.scheduler.lastReconciledAtMs = now,
                !.scheduler.lastError = NoError]

\* Array.prototype.find by key: the index of the first entry, or 0
FindKey(entries, key) ==
  IF \E i \in DOMAIN entries : entries[i].key = key
    THEN CHOOSE i \in DOMAIN entries :
           entries[i].key = key /\ \A j \in 1..(i - 1) : entries[j].key # key
    ELSE 0

\* lines 528-531
getLastProcessedRunAt(state, key) ==
  LET i == FindKey(state.scheduler.lastProcessedRuns, key)
  IN IF i = 0 THEN 0 ELSE state.scheduler.lastProcessedRuns[i].runAtMs

\* lines 533-547
setLastProcessedRunAt(state, key, runAtMs, now) ==
  LET i == FindKey(state.scheduler.lastProcessedRuns, key)
  IN IF i # 0
       THEN [state EXCEPT !.scheduler.lastProcessedRuns[i].runAtMs = runAtMs,
                          !.scheduler.lastProcessedRuns[i].updatedAtMs = now]
       ELSE [state EXCEPT !.scheduler.lastProcessedRuns =
               Append(@, [key |-> key, runAtMs |-> runAtMs,
                          createdAtMs |-> now, updatedAtMs |-> now])]

\* lines 549-570 and 871-873: the timestamp of the latest run, 0 when it has none
RunAtMsOf(latest) ==
  IF latest.runAtMs # Unset THEN latest.runAtMs
  ELSE IF latest.ts # Unset THEN latest.ts
  ELSE 0

\* lines 572-579; the id of no waiting item: null
NoWaitingId == <<>>
parseWaitingIdFromJobKey(agentId, key) ==
  LET prefix == buildJobKey(agentId, <<"waiting", ":">>)
  IN IF ~StartsWith(key, prefix) THEN NoWaitingId
     ELSE Trim(SubSeq(key, Len(prefix) + 1, Len(key)))

\* ------------------------------------------------------------------------
\* Scheduler: reconcileAgentJobs (lines 754-861)
\* ------------------------------------------------------------------------
\* a gateway call of the pass: the failAt-th call of the pass throws, every
\* other call is applied by the cron service
GatewayCall(acc, call, cronAfter) ==
  IF acc.threw THEN acc
  ELSE IF acc.n + 1 = acc.failAt THEN [acc EXCEPT !.n = @ + 1, !.threw = TRUE]
  ELSE [acc EXCEPT !.n = @ + 1, !.cron = cronAfter,
                   !.calls = Append(@, call), !.changed = TRUE]

\* lines 819-827 and 842-853 without the calls: no job is removed
RemoveJobs_KeepingJobs(acc, jobs) ==
  acc

\* lines 819-827 and 842-853: cron.remove for each of the jobs
RECURSIVE RemoveJobs(_, _)
RemoveJobs(acc, jobs) ==
  IF jobs = <<>> \/ acc.threw THEN acc
  ELSE RemoveJobs(
         GatewayCall(acc, [method |-> "cron.remove", id |-> Head(jobs).id,
                           name |-> Head(jobs).name],
                     cronRemove(acc.cron, Head(jobs).id)),
         Tail(jobs))

\* lines 779-781 without toSorted: the jobs as cron.list gave them
SortedById_AsListed(jobs) ==
  jobs

\* lines 779-781: toSorted by id
SortedById(jobs) ==
  LET ids == SortedSeq({jobs[i].id : i \in DOMAIN jobs})
  IN [i \in DOMAIN ids |-> jobs[CHOOSE j \in DOMAIN jobs : jobs[j].id = ids[i]]]

\* new Map(entries.map((entry) => [entry.key, entry])).get(key): the index of
\* the last entry of the key, or 0
LastOfKey(entries, key) ==
  IF \E i \in DOMAIN entries : entries[i].key = key
    THEN CHOOSE i \in DOMAIN entries :
           entries[i].key = key /\ \A j \in (i + 1)..Len(entries) : entries[j].key # key
    ELSE 0

\* lines 829-839 with updatedAtMs: now whatever the id
NextRef_AlwaysUpdated(previousRefs, key, activeId, now) ==
  LET p == LastOfKey(previousRefs, key)
  IN [key |-> key, cronJobId |-> activeId,
      createdAtMs |-> IF p # 0 THEN previousRefs[p].createdAtMs ELSE now,
      updatedAtMs |-> now]

\* lines 829-839: the ref of the key's job
NextRef(previousRefs, key, activeId, now) ==
  LET p == LastOfKey(previousRefs, key)
  IN [key |-> key, cronJobId |-> activeId,
      createdAtMs |-> IF p # 0 THEN previousRefs[p].createdAtMs ELSE now,
      updatedAtMs |-> IF p # 0 /\ previousRefs[p].cronJobId = activeId
                        THEN previousRefs[p].updatedAtMs ELSE now]

\* lines 778-840: one desired job
ReconcileDesiredJob(acc, desiredJob, managedJobs, previousRefs, now) ==
  LET sameName == SortedById(SelectSeq(managedJobs,
                                       LAMBDA job : job.name = desiredJob.key))
      hasActive == sameName # <<>>
      a1 == IF ~hasActive
              THEN GatewayCall(acc, [method |-> "cron.add", id |-> acc.cron.seq + 1,
                                     name |-> desiredJob.key],
                               cronAdd(acc.cron, desiredJob.create))
            ELSE IF ~jobMatchesDesired(sameName[1], desiredJob)
              THEN GatewayCall(acc, [method |-> "cron.update", id |-> sameName[1].id,
                                     name |-> desiredJob.key],
                               cronUpdate(acc.cron, sameName[1].id, desiredJob.patch))
            ELSE acc
      activeId == IF hasActive THEN sameName[1].id ELSE a1.cron.seq
      a2 == RemoveJobs(a1, IF hasActive THEN Tail(sameName) ELSE <<>>)
  IN IF a2.threw THEN a2
     ELSE [a2 EXCEPT !.nextRefs =
             Append(@, NextRef(previousRefs, desiredJob.key, activeId, now))]

RECURSIVE ReconcileDesired(_, _, _, _, _)
ReconcileDesired(acc, desired, managedJobs, previousRefs, now) ==
  IF desired = <<>> \/ acc.threw THEN acc
  ELSE ReconcileDesired(
         ReconcileDesiredJob(acc, Head(desired), managedJobs, previousRefs, now),
         Tail(desired), managedJobs, previousRefs, now)

\* failAt: which gateway call of the pass throws (1: cron.list), 0: none
reconcileAgentJobs(agentId, state, c, now, failAt) ==
  LET desired == buildDesiredCronJobs(agentId, state, now)
      existing == callCronList(c)
      managedPrefix == <<JOB_NAMESPACE, ":">> \o agentId \o <<":">>
      managedJobs == SelectSeq(existing, LAMBDA job : StartsWith(job.name, managedPrefix))
      desiredKeys == {desired[i].key : i \in DOMAIN desired}
      acc0 == [cron |-> c, n |-> 1, failAt |-> failAt, threw |-> failAt = 1,
               changed |-> FALSE, calls |-> <<>>, nextRefs |-> <<>>]
      acc1 == ReconcileDesired(acc0, desired, managedJobs, state.scheduler.jobs, now)
      acc2 == RemoveJobs(acc1, SelectSeq(managedJobs,
                                         LAMBDA stale : stale.name \notin desiredKeys))
      changed == ~acc2.threw /\ (acc2.changed \/ state.scheduler.jobs # acc2.nextRefs)
  IN [threw |-> acc2.threw, cron |-> acc2.cron, calls |-> acc2.calls,
      changed |-> changed,
      state |-> IF changed THEN updateSchedulerJobRefs(state, acc2.nextRefs, now)
                ELSE state]

\* ------------------------------------------------------------------------
\* Scheduler: processTriggeredRuns and the effect handlers (lines 611-752, 863-900)
\* ------------------------------------------------------------------------
\* how the effect handler of a run ends: it returns, it returns having met a
\* failure it reports (sync.ok or sent.ok false), or it throws
HandlerOutcomes == {"ok", "failed", "threw"}

\* lines 581-587
buildAutoSendAllowKey(target) ==
  normalizeAllowlistKey(target.channel \o <<":">> \o target.accountId \o <<":">> \o target.to)

\* lines 619-621: the index of the first active item of the id, 0 when none
FindActiveWaiting(state, waitingId) ==
  LET found == {i \in DOMAIN state.waitingFor :
                  state.waitingFor[i].id = waitingId
                  /\ state.waitingFor[i].status = "active"}
  IN IF found = {} THEN 0 ELSE CHOOSE j \in found : \A k \in found : j <= k

\* line 631
TargetMissing(waiting) ==
  \/ waiting.deliveryTarget = <<>>
  \/ Trim(waiting.deliveryTarget[1].channel) = <<>>
  \/ Trim(waiting.deliveryTarget[1].to) = <<>>

\* lines 650-655 with the test negated: every target counts as allowlisted
isAllowlisted_Always(waiting) ==
  TRUE

\* lines 650-655
isAllowlisted(waiting) ==
  \E i \in DOMAIN PluginConfig.autonomy.followup.autoSendAllowlist :
    PluginConfig.autonomy.followup.autoSendAllowlist[i]
      = buildAutoSendAllowKey(waiting.deliveryTarget[1])

\* lines 677-686: the calls of routeReply the follow-up makes
routeReplyCalls(state, waitingId) ==
  LET i == FindActiveWaiting(state, waitingId)
  IN IF i = 0 THEN <<>>
     ELSE IF TargetMissing(state.waitingFor[i]) THEN <<>>
     ELSE IF ~isAllowlisted(state.waitingFor[i]) THEN <<>>
     ELSE <<[channel |-> state.waitingFor[i].deliveryTarget[1].channel,
             to |-> state.waitingFor[i].deliveryTarget[1].to, mirror |-> FALSE]>>

\* store.ts, capture and addCommitment, of the fields the follow-up gives
Captured(state, rawText, source) ==
  [state EXCEPT !.inboxItems = Append(@, [rawText |-> rawText, source |-> source,
                                          status |-> "captured"])]

Committed(state, requestRef, decision, nextUpdateAtMs) ==
  [state EXCEPT !.commitments = Append(@, [requestRef |-> requestRef,
                                           decision |-> decision,
                                           nextUpdateAtMs |-> nextUpdateAtMs])]

\* schema.ts lines 43-56, of the fields the scheduler gives an action
ActionItem(textVerbFirst, status, now) ==
  [id |-> <<"ulid", now>>, textVerbFirst |-> textVerbFirst, status |-> status,
   createdAtMs |-> now, updatedAtMs |-> now]

\* line 590
CalendarAuthLabel == "Reconnect Google Calendar auth for GTD sync"

\* the active actions of the state that carry the label
ActiveWithLabel(state, label) ==
  {i \in DOMAIN state.actions :
     state.actions[i].status = "active" /\ state.actions[i].textVerbFirst = label}

\* lines 589-609 without the search for an existing action
ensureCalendarAuthRecoveryAction_AlwaysPushing(state, now) ==
  [state EXCEPT !.actions = Append(@, ActionItem(CalendarAuthLabel, "active", now))]

\* lines 589-609
ensureCalendarAuthRecoveryAction(state, now) ==
  IF ActiveWithLabel(state, CalendarAuthLabel) # {} THEN state
  ELSE [state EXCEPT !.actions = Append(@, ActionItem(CalendarAuthLabel, "active", now))]

\* lines 611-707; outcome: "failed" when routeReply returns ok false
runWaitingFollowup(state, waitingId, now, outcome) ==
  LET i == FindActiveWaiting(state, waitingId)
  IN IF i = 0 THEN state
     ELSE LET waiting == state.waitingFor[i]
              nextFollowupAt == now + waiting.followupCadenceDays * DAY_MS
          IN IF TargetMissing(waiting)
               THEN [Committed(Captured(state, "[draft_confirm]",
                                        "scheduler.waiting.draft_confirm"),
                               waiting.id, "needs_info", now + 60 * 60 * 1000)
                       EXCEPT !.waitingFor[i].followupAtMs = nextFollowupAt]
             ELSE IF ~isAllowlisted(waiting)
               THEN [Committed(Captured(state, "[draft_confirm]",
                                        "scheduler.waiting.draft_confirm"),
                               waiting.id, "deferred", now + 60 * 60 * 1000)
                       EXCEPT !.waitingFor[i].followupAtMs = nextFollowupAt]
             ELSE IF outcome = "failed"
               THEN [Captured(state, "[followup_send_error]",
                              "scheduler.waiting.send_error")
                       EXCEPT !.waitingFor[i].followupAtMs = now + 6 * 60 * 60 * 1000]
             ELSE [state EXCEPT !.waitingFor[i].lastFollowupAtMs = now,
                                !.waitingFor[i].followupAtMs = nextFollowupAt]

\* lines 709-752, of what the handler does to the parts of the state kept here
processJobRun(agentId, state, key, now, outcome) ==
  IF key \in {buildJobKey(agentId, <<"daily-review">>),
              buildJobKey(agentId, <<"weekly-review">>),
              buildJobKey(agentId, <<"horizons-review">>)}
    THEN state
  ELSE IF key = buildJobKey(agentId, <<"calendar-sync">>)
    THEN IF outcome = "failed" THEN ensureCalendarAuthRecoveryAction(state, now)
         ELSE state
  ELSE IF parseWaitingIdFromJobKey(agentId, key) # NoWaitingId
    THEN runWaitingFollowup(state, parseWaitingIdFromJobKey(agentId, key), now, outcome)
  ELSE state

\* lines 866-897: one job ref.  seen: what the loop met at each run newer than
\* the marker; handled: the runs whose handler was invoked
ProcessRef(acc, agentId, ref, c, now, outs) ==
  LET latest == cronRuns(c, ref.cronJobId)
      runAtMs == RunAtMsOf(latest)
      lastSeen == getLastProcessedRunAt(acc.state, ref.key)
      waitingId == parseWaitingIdFromJobKey(agentId, ref.key)
      returns == waitingId # NoWaitingId /\ routeReplyCalls(acc.state, waitingId) = <<>>
      outcome == IF latest.status # "ok" THEN "none"
                 ELSE IF returns THEN "ok"
                 ELSE outs[ref.key]
      met == [agentId |-> agentId, key |-> ref.key, runAtMs |-> runAtMs,
              status |-> latest.status, invoked |-> latest.status = "ok",
              outcome |-> outcome, before |-> lastSeen]
      run == [agentId |-> agentId, key |-> ref.key, runAtMs |-> runAtMs]
      handled == IF latest.status = "ok" THEN Append(acc.handled, run) ELSE acc.handled
      after == IF latest.status = "ok"
                 THEN processJobRun(agentId, acc.state, ref.key, now, outcome)
                 ELSE acc.state
  IN IF acc.n + 1 = acc.failAt THEN [acc EXCEPT !.n = @ + 1, !.threw = TRUE]
     ELSE IF latest = NoEntries THEN [acc EXCEPT !.n = @ + 1]
     ELSE IF runAtMs = 0 THEN [acc EXCEPT !.n = @ + 1]
     ELSE IF runAtMs <= lastSeen THEN [acc EXCEPT !.n = @ + 1]
     ELSE IF outcome = "threw"
       THEN [acc EXCEPT !.n = @ + 1, !.threw = TRUE, !.handled = handled,
                        !.seen = Append(@, met)]
     ELSE [acc EXCEPT !.n = @ + 1, !.handled = handled, !.seen = Append(@, met),
                      !.changed = TRUE,
                      !.state = setLastProcessedRunAt(after, ref.key, runAtMs, now)]

RECURSIVE ProcessRefs(_, _, _, _, _, _)
ProcessRefs(acc, agentId, refs, c, now, outs) ==
  IF refs = <<>> \/ acc.threw THEN acc
  ELSE ProcessRefs(ProcessRef(acc, agentId, Head(refs), c, now, outs),
                   agentId, Tail(refs), c, now, outs)

\* outs: how the handler of each key ends; failAt: which cron.runs call throws
processTriggeredRuns(agentId, state, c, now, outs, failAt) ==
  ProcessRefs([state |-> state, changed |-> FALSE, threw |-> FALSE, n |-> 0,
               failAt |-> failAt, handled |-> <<>>, seen |-> <<>>],
              agentId, state.scheduler.jobs, c, now, outs)

\* the refs whose latest run is newer than the marker and succeeded
RefsToHandle(state, c) ==
  {state.scheduler.jobs[i].key : i \in
     {j \in DOMAIN state.scheduler.jobs :
        LET latest == cronRuns(c, state.scheduler.jobs[j].cronJobId)
        IN /\ latest.status = "ok"
           /\ RunAtMsOf(latest) > getLastProcessedRunAt(state, state.scheduler.jobs[j].key)}}

\* ------------------------------------------------------------------------
\* Scheduler: bounds, inputs and initial state
\* ------------------------------------------------------------------------
\* tick invocations that may be in flight at once, calls of start(), firings of
\* the interval timer, advances of the clock by RECONCILE_INTERVAL_MS, and runs
\* the cron service completes
MaxTicksInFlight == 2
MaxStarts == 2
MaxFirings == 2
MaxIntervals == 2
MaxCronRuns == 2

\* jobs added to the cron service by others than the reconciler
MaxOutsideJobs == 2

\* runs of the follow-up of a waiting item
MaxFollowups == 2

\* the delivery target of a waiting item: none, one with a blank channel or a
\* blank recipient, one that is not allowlisted, and allowlisted ones
FollowupTargets ==
  {<<>>,
   <<DeliveryTarget(<<" ">>, <<"b">>)>>,
   <<DeliveryTarget(<<"t">>, <<"\t">>)>>,
   <<DeliveryTarget(<<"t">>, <<"c">>)>>,
   <<DeliveryTarget(<<"T">>, <<"b", " ">>)>>,
   <<DeliveryTarget(<<"t">>, <<"b">>)>>}

\* agents.list with ids of which one is the beginning of another
NestedAgentList == << <<"a">>, <<"a", ":", "b">>, <<"a", "b">> >>

\* agents.list of the configuration watched
AgentsConfigured == IF gsWatch = "agents" THEN NestedAgentList ELSE AgentList

\* the agents of the configuration; one agent while no fault is watched
AgentsWatched ==
  IF gsWatch \in {"faults", "agents"} THEN AgentsConfigured ELSE <<AgentList[1]>>

AgentIds == Range(listConfiguredAgentIds(AgentsConfigured))

\* a follow-up time that lies ahead of every clock value reached
FollowupAhead == RECONCILE_INTERVAL_MS * (2 + MaxIntervals)

\* gtd.json of agent a at startup: it waits for a reply whose follow-up time
\* has passed; while the reconciliation is watched it may also wait for none,
\* or for one whose follow-up time lies ahead
InitialStates(watch) ==
  CASE watch = "reconcile" ->
         {DefaultState,
          [DefaultState EXCEPT !.waitingFor = <<WaitingForItem(<<"w1">>, 0, 1)>>],
          [DefaultState EXCEPT !.waitingFor = <<WaitingForItem(<<"w1">>, FollowupAhead, 1)>>]}
    [] watch = "jobs" ->
         {[DefaultState EXCEPT !.waitingFor = <<WaitingForItem(<<"w1">>, 0, 1)>>],
          [DefaultState EXCEPT !.waitingFor = <<WaitingForItem(<<"w1">>, FollowupAhead, 1)>>]}
    [] watch = "followup" ->
         {[DefaultState EXCEPT !.waitingFor =
             <<[WaitingForItem(<<"w1">>, 0, days) EXCEPT !.deliveryTarget = target],
               [WaitingForItem(<<"w2">>, 0, 1) EXCEPT !.status = status]>>] :
            target \in FollowupTargets, days \in {1, 5},
            status \in {"active", "resolved"}}
    [] watch \in {"runs", "firings"} ->
         {[DefaultState EXCEPT !.waitingFor = <<WaitingForItem(<<"w1">>, 0, 1)>>]}
    [] watch = "calendar" ->
         {[DefaultState EXCEPT !.actions = actions] :
            actions \in {<<>>,
                         <<ActionItem(CalendarAuthLabel, "done", 0)>>,
                         <<ActionItem("Call the bank", "active", 0)>>,
                         <<ActionItem(CalendarAuthLabel, "active", 0)>>}}
    [] watch = "agents" ->
         {DefaultState,
          [DefaultState EXCEPT !.waitingFor = <<WaitingForItem(<<"w1">>, 0, 1)>>]}
    [] OTHER -> {DefaultState}

\* locals of a tick invocation: pc "none" (not in flight), "reconcile" (before
\* runAgentTick of agents[idx]) or "runs" (before its processTriggeredRuns);
\* raised, ticked and recorded are what an observer notes of the invocation
TickIdle ==
  [pc |-> "none", origin |-> "none", agents |-> <<>>, idx |-> 0,
   state |-> DefaultState, changed |-> FALSE,
   raised |-> {}, ticked |-> {}, recorded |-> {}]

NoReconcile ==
  [ok |-> FALSE, jobs |-> <<>>, state |-> DefaultState, again |-> FALSE, calls |-> 0,
   at |-> 0, prevAt |-> 0, before |-> <<>>, issued |-> <<>>, refsBefore |-> <<>>]

NoFollowup ==
  [n |-> 0, waitingId |-> NoWaitingId, now |-> 0, before |-> DefaultState,
   after |-> DefaultState, sent |-> <<>>, ok |-> TRUE]

GsHistIdle ==
  [rec |-> [a \in AgentIds |-> NoReconcile],
   followup |-> NoFollowup,
   madeFor |-> {},
   completed |-> {},
   invoked |-> {},
   handled |-> <<>>,
   seen |-> <<>>,
   firing |-> [fired |-> FALSE, inFlight |-> FALSE, started |-> FALSE],
   lastTick |-> [done |-> FALSE, escaped |-> FALSE, agents |-> <<>>,
                 raised |-> {}, ticked |-> {}, recorded |-> {}]]

GsInit(watch) ==
  /\ gsWatch = watch
  /\ cron = NoCron
  /\ \E st \in InitialStates(watch) :
       gtdStore = [a \in AgentIds |-> IF a = <<"a">> THEN st ELSE DefaultState]
  /\ wallClock = RECONCILE_INTERVAL_MS
  /\ timer = FALSE
  /\ running = FALSE
  /\ tickCalls = [s \in 1..MaxTicksInFlight |-> TickIdle]
  /\ svcEnv = [started |-> FALSE, intervals |-> 0, firedAt |-> 0,
               starts |-> 0, firings |-> 0]
  /\ gsHist = GsHistIdle

\* the faults the environment raises while they are watched
ReconcileFaults == IF gsWatch = "faults" THEN {"none", "list", "call"} ELSE {"none"}
ProcessFaults == IF gsWatch = "faults" THEN {"none", "fetch"} ELSE {"none"}
SaveFaults == IF gsWatch = "faults" THEN BOOLEAN ELSE {FALSE}

\* the runs the cron service completes: one while the service is stopped and
\* started again
CronRunsWatched == IF gsWatch = "lifecycle" THEN 1 ELSE MaxCronRuns

\* the jobs whose runs the cron service completes while the runs are watched
RunsWatched(agentId, name) ==
  \/ name = buildJobKey(agentId, <<"calendar-sync">>)
  \/ gsWatch # "lifecycle" /\ StartsWith(name, buildJobKey(agentId, <<"waiting", ":">>))

\* ------------------------------------------------------------------------
\* Scheduler: the service (lines 902-1017)
\* ------------------------------------------------------------------------
TicksInFlight == {s \in DOMAIN tickCalls : tickCalls[s].pc # "none"}
FreeSlots == DOMAIN tickCalls \ TicksInFlight

\* lines 963-966: the guard of tick
TickReturnsAtOnce == running \/ PluginConfig.mode # "always_on"

\* lines 963-985: tick up to its first await
tick(origin) ==
  IF TickReturnsAtOnce
    THEN UNCHANGED <<running, tickCalls>>
    ELSE /\ running' = TRUE
         /\ tickCalls' =
              [tickCalls EXCEPT ![CHOOSE s \in FreeSlots : \A o \in FreeSlots : s <= o] =
                 [TickIdle EXCEPT !.pc = "reconcile", !.origin = origin,
                                  !.agents = listConfiguredAgentIds(AgentsWatched),
                                  !.idx = 1]]

\* lines 997-1008: start(); the interval is set once the initial tick has settled
Start ==
  /\ ~svcEnv.started
  /\ svcEnv.starts < MaxStarts
  /\ TickReturnsAtOnce \/ FreeSlots # {}
  /\ tick("start")
  /\ timer' = (timer \/ TickReturnsAtOnce)
  /\ svcEnv' = [svcEnv EXCEPT !.started = TRUE, !.starts = @ + 1,
                              !.intervals = IF TickReturnsAtOnce THEN @ + 1 ELSE @,
                              !.firedAt = IF TickReturnsAtOnce THEN wallClock ELSE @]
  /\ UNCHANGED <<cron, gtdStore, wallClock, gsHist, gsWatch, hsVars, rcVars, chVars>>

\* lines 1002-1006: the interval fires, RECONCILE_INTERVAL_MS after it last did
TimerFires ==
  /\ svcEnv.intervals > 0
  /\ wallClock > svcEnv.firedAt
  /\ svcEnv.firings < MaxFirings
  /\ TickReturnsAtOnce \/ FreeSlots # {}
  /\ tick("timer")
  /\ svcEnv' = [svcEnv EXCEPT !.firedAt = wallClock, !.firings = @ + 1]
  /\ gsHist' = IF gsWatch = "restarts"
                 THEN [gsHist EXCEPT !.firing = [fired |-> TRUE,
                                                 inFlight |-> TicksInFlight # {},
                                                 started |-> ~TickReturnsAtOnce]]
                 ELSE gsHist
  /\ UNCHANGED <<cron, gtdStore, wallClock, timer, gsWatch, hsVars, rcVars, chVars>>

\* lines 1009-1015: stop()
Stop ==
  /\ svcEnv.started
  /\ timer' = FALSE
  /\ running' = FALSE
  /\ svcEnv' = [svcEnv EXCEPT !.started = FALSE,
                              !.intervals = IF timer THEN @ - 1 ELSE @]
  /\ UNCHANGED <<cron, gtdStore, wallClock, tickCalls, gsHist, gsWatch, hsVars, rcVars, chVars>>

\* lines 936-951: the loop of runSchedulerTick goes on to the next agent
NextAgent(t) ==
  [t EXCEPT !.pc = IF t.idx < Len(t.agents) THEN "reconcile" ELSE "none",
            !.idx = @ + 1, !.state = DefaultState, !.changed = FALSE]

\* a step of the tick in slot s leaves it with locals t; with pc "none" the
\* tick has settled: the finally of line 990 runs, and the start() that awaited
\* it sets the interval (lines 998-1007)
TickStep(s, t, escaped, hist) ==
  IF t.pc # "none"
    THEN /\ tickCalls' = [tickCalls EXCEPT ![s] = t]
         /\ gsHist' = hist
         /\ UNCHANGED <<running, timer, svcEnv>>
    ELSE /\ tickCalls' = [tickCalls EXCEPT ![s] = TickIdle]
         /\ running' = FALSE
         /\ timer' = (timer \/ t.origin = "start")
         /\ svcEnv' = IF t.origin = "start"
                        THEN [svcEnv EXCEPT !.intervals = @ + 1, !.firedAt = wallClock]
                        ELSE svcEnv
         /\ gsHist' = IF gsWatch = "faults"
                        THEN [hist EXCEPT !.lastTick =
                                [done |-> TRUE, escaped |-> escaped, agents |-> t.agents,
                                 raised |-> t.raised, ticked |-> t.ticked,
                                 recorded |-> t.recorded]]
                        ELSE hist

\* an exception leaves runAgentTick: the tick rejects
Escaped(t) == [t EXCEPT !.pc = "none"]

\* lines 914-917: the message of the error caught
ErrorMessage == "error"

\* what the observer notes of a reconciliation pass: whether the pass before
\* it completed and left the jobs and the state this pass starts from
ReconcileNoted(hist, agentId, state, r) ==
  IF gsWatch \in {"reconcile", "jobs", "agents"}
    THEN [hist EXCEPT !.madeFor =
            IF gsWatch = "agents"
              THEN @ \cup {<<r.calls[i].id, agentId>> :
                             i \in {j \in DOMAIN r.calls : r.calls[j].method = "cron.add"}}
              ELSE @,
                      !.rec[agentId] =
            [ok |-> ~r.threw, jobs |-> r.cron.jobs, state |-> r.state,
             before |-> IF gsWatch = "jobs" THEN cron.jobs ELSE <<>>,
             issued |-> IF gsWatch \in {"jobs", "agents"} THEN r.calls ELSE <<>>,
             refsBefore |-> IF gsWatch = "jobs" THEN state.scheduler.jobs ELSE <<>>,
             again |-> /\ hist.rec[agentId].ok
                       /\ hist.rec[agentId].jobs = cron.jobs
                       /\ hist.rec[agentId].state = state,
             calls |-> Len(r.calls), at |-> wallClock,
             prevAt |-> hist.rec[agentId].at]]
    ELSE hist

\* lines 902-926 up to the await of processTriggeredRuns: loadState and
\* reconcileAgentJobs; an exception of the pass is caught and the state saved
AgentReconciles ==
  \E s \in DOMAIN tickCalls, fault \in ReconcileFaults, saveFails \in SaveFaults :
    LET t == tickCalls[s]
        agentId == SafeAgentId(t.agents[t.idx])
        state == gtdStore[agentId]
        r == reconcileAgentJobs(agentId, state, cron, wallClock,
                                IF fault = "list" THEN 1 ELSE IF fault = "call" THEN 2 ELSE 0)
        failed == [state EXCEPT !.scheduler.lastError = ErrorMessage]
    IN /\ t.pc = "reconcile"
       /\ IF r.threw /\ saveFails
            THEN /\ cron' = r.cron
                 /\ UNCHANGED gtdStore
                 /\ TickStep(s, Escaped([t EXCEPT !.raised = @ \cup {<<agentId, "reconcile">>,
                                                                    <<agentId, "save">>}]),
                             TRUE, ReconcileNoted(gsHist, agentId, state, r))
          ELSE IF r.threw
            THEN /\ cron' = r.cron
                 /\ gtdStore' = [gtdStore EXCEPT ![agentId] = failed]
                 /\ TickStep(s, NextAgent([t EXCEPT !.raised = @ \cup {<<agentId, "reconcile">>},
                                                    !.ticked = @ \cup {agentId},
                                                    !.recorded = @ \cup {agentId}]),
                             FALSE, ReconcileNoted(gsHist, agentId, state, r))
          ELSE /\ cron' = r.cron
               /\ UNCHANGED gtdStore
               /\ TickStep(s, [t EXCEPT !.pc = "runs", !.state = r.state,
                                        !.changed = r.changed],
                           FALSE, ReconcileNoted(gsHist, agentId, state, r))
       /\ UNCHANGED <<wallClock, gsWatch, hsVars, rcVars, chVars>>

\* what the observer notes of the runs a pass met: the marker after the pass
RunsNoted(hist, p, after) ==
  IF gsWatch = "runs"
    THEN [hist EXCEPT
            !.handled = @ \o p.handled,
            !.seen = [i \in DOMAIN p.seen |->
                        [after |-> getLastProcessedRunAt(after, p.seen[i].key)]
                          @@ p.seen[i]]]
  ELSE IF gsWatch = "calendar"
    THEN [hist EXCEPT
            !.seen = [i \in DOMAIN p.seen |->
                        [actions |-> after.actions] @@ p.seen[i]]]
  ELSE IF gsWatch = "firings"
    THEN [hist EXCEPT
            !.invoked = @ \cup {<<p.handled[i].key, p.handled[i].runAtMs>> :
                                  i \in DOMAIN p.handled}]
    ELSE hist

\* lines 910-925: processTriggeredRuns, the catch, and saveState
AgentProcessesRuns ==
  \E s \in DOMAIN tickCalls, fault \in ProcessFaults, saveFails \in SaveFaults :
    \E outs \in [RefsToHandle(tickCalls[s].state, cron) -> HandlerOutcomes] :
      LET t == tickCalls[s]
          agentId == SafeAgentId(t.agents[t.idx])
          p == processTriggeredRuns(agentId, t.state, cron, wallClock, outs,
                                    IF fault = "fetch" THEN 1 ELSE 0)
          after == [p.state EXCEPT !.scheduler.lastError =
                      IF p.threw THEN ErrorMessage ELSE NoError]
          changed == t.changed \/ p.changed \/ p.threw
          raised == t.raised \cup (IF p.threw THEN {<<agentId, "runs">>} ELSE {})
      IN /\ t.pc = "runs"
         /\ IF changed /\ saveFails
              THEN /\ UNCHANGED gtdStore
                   /\ TickStep(s, Escaped([t EXCEPT !.raised = raised \cup {<<agentId, "save">>}]),
                               TRUE, RunsNoted(gsHist, p, after))
              ELSE /\ gtdStore' = IF changed THEN [gtdStore EXCEPT ![agentId] = after]
                                  ELSE gtdStore
                   /\ TickStep(s, NextAgent([t EXCEPT !.raised = raised,
                                                      !.ticked = @ \cup {agentId},
                                                      !.recorded = IF changed /\ p.threw
                                                                     THEN @ \cup {agentId}
                                                                     ELSE @]),
                               FALSE, RunsNoted(gsHist, p, after))
         /\ UNCHANGED <<cron, wallClock, gsWatch, hsVars, rcVars, chVars>>

\* ------------------------------------------------------------------------
\* Scheduler: the environment
\* ------------------------------------------------------------------------
\* time passes: one interval of the timer
TimePasses ==
  /\ wallClock < RECONCILE_INTERVAL_MS * (1 + MaxIntervals)
  /\ wallClock' = wallClock + RECONCILE_INTERVAL_MS
  /\ UNCHANGED <<cron, gtdStore, timer, running, tickCalls, svcEnv, gsHist, gsWatch,
                 hsVars, rcVars, chVars>>

\* the bounds leave room for a tick that starts later: the clock may advance
\* and the interval may fire once more
TickAhead ==
  /\ wallClock < RECONCILE_INTERVAL_MS * (1 + MaxIntervals)
  /\ svcEnv.firings < MaxFirings

\* the cron service completes a run of a job, later than the job's last run; a
\* job to delete after its run is deleted once it ran with success
CronRunCompletes ==
  \E i \in DOMAIN cron.jobs, status \in {"ok", "error"}, field \in {"runAtMs", "ts"} :
    LET job == cron.jobs[i]
        entry == IF field = "runAtMs"
                   THEN [runAtMs |-> wallClock, ts |-> Unset, status |-> status]
                   ELSE [runAtMs |-> Unset, ts |-> wallClock, status |-> status]
    IN /\ cron.fired < CronRunsWatched
       /\ \E a \in AgentIds : RunsWatched(a, job.name)
       /\ RunAtMsOf(cron.runs[job.id]) < wallClock
       /\ gsWatch = "firings" => TickAhead
       /\ cron' = [cron EXCEPT !.fired = @ + 1,
                               !.runs[job.id] = entry,
                               !.jobs = IF job.deleteAfterRun /\ status = "ok"
                                          THEN SelectSeq(cron.jobs, LAMBDA j : j.id # job.id)
                                          ELSE cron.jobs]
       /\ gsHist' = IF gsWatch = "firings" /\ status = "ok"
                      THEN [gsHist EXCEPT !.completed = @ \cup {<<job.name, wallClock>>}]
                      ELSE gsHist
       /\ UNCHANGED <<gtdStore, wallClock, timer, running, tickCalls, svcEnv,
                      gsWatch, hsVars, rcVars, chVars>>

\* the cron service retries a run that failed; the retry succeeds and its
\* record carries the timestamp of the firing
CronRetrySucceeds ==
  \E id \in DOMAIN cron.runs :
    /\ cron.runs[id].status = "error"
    /\ cron' = [cron EXCEPT !.runs[id].status = "ok"]
    /\ UNCHANGED <<gtdStore, wallClock, timer, running, tickCalls, svcEnv, gsHist,
                   gsWatch, hsVars, rcVars, chVars>>

\* store.ts, resolveWaitingFor: a tool call marks a waiting item resolved
\* and saves the state
ResolveWaitingFor ==
  \E a \in AgentIds :
    \E i \in DOMAIN gtdStore[a].waitingFor :
      /\ gtdStore[a].waitingFor[i].status = "active"
      /\ gtdStore' = [gtdStore EXCEPT ![a].waitingFor[i].status = "resolved"]
      /\ UNCHANGED <<cron, wallClock, timer, running, tickCalls, svcEnv, gsHist, gsWatch,
                     hsVars, rcVars, chVars>>

\* the one-shot job of a waiting item that the agent no longer has
StaleWaitingJob(agentId) ==
  buildBaseCronJob(buildJobKey(agentId, <<"waiting", ":", "w0">>), agentId,
                   [kind |-> "at", at |-> toISOString(0)], TRUE)

\* a job of another owner
ForeignJob ==
  [name |-> <<"backup">>, enabled |-> TRUE, deleteAfterRun |-> FALSE,
   schedule |-> [kind |-> "every", everyMs |-> DAY_MS, anchorMs |-> 0],
   sessionTarget |-> "main", wakeMode |-> "now",
   payload |-> [kind |-> "systemEvent", message |-> <<"backup">>, deliver |-> FALSE],
   delivery |-> [mode |-> "none"], agentId |-> <<"main">>, sessionKey |-> <<"main">>]

\* cron.add by another client of the gateway: a second job under the name of a
\* job there is, a job left under the agent's prefix, or a job of another owner
OutsideJobAdded ==
  \E create \in {cron.jobs[i] : i \in DOMAIN cron.jobs}
                  \cup {StaleWaitingJob(a).create : a \in AgentIds} \cup {ForeignJob} :
    /\ cron.added < MaxOutsideJobs
    \* cron.list returns the jobs in an order of its own: the job comes first
    /\ cron' = [cronAdd(cron, create) EXCEPT
                  !.added = @ + 1,
                  !.jobs = <<@[Len(@)]>> \o SubSeq(@, 1, Len(@) - 1)]
    /\ UNCHANGED <<gtdStore, wallClock, timer, running, tickCalls, svcEnv, gsHist,
                   gsWatch, hsVars, rcVars, chVars>>

\* cron.remove by another client of the gateway, or the cron service deleting
\* a one-shot job that ran: a job is gone
OutsideJobRemoved ==
  \E i \in DOMAIN cron.jobs :
    /\ cron.added < MaxOutsideJobs
    /\ cron' = [cronRemove(cron, cron.jobs[i].id) EXCEPT !.added = @ + 1]
    /\ UNCHANGED <<gtdStore, wallClock, timer, running, tickCalls, svcEnv, gsHist,
                   gsWatch, hsVars, rcVars, chVars>>

\* lines 611-707 and 741-750: the follow-up of a waiting item runs, as
\* processJobRun invokes it; routeReply returns ok or an error
RunWaitingFollowup ==
  \E a \in AgentIds, waitingId \in {<<"w1">>, <<"w2">>}, outcome \in {"ok", "failed"} :
    LET calls == routeReplyCalls(gtdStore[a], waitingId)
        after == runWaitingFollowup(gtdStore[a], waitingId, wallClock, outcome)
    IN /\ gsHist.followup.n < MaxFollowups
       /\ calls = <<>> => outcome = "ok"
       /\ gtdStore' = [gtdStore EXCEPT ![a] = after]
       /\ gsHist' = [gsHist EXCEPT !.followup =
                       [n |-> @.n + 1, waitingId |-> waitingId, now |-> wallClock,
                        before |-> gtdStore[a], after |-> after, sent |-> calls,
                        ok |-> outcome = "ok"]]
       /\ UNCHANGED <<cron, wallClock, timer, running, tickCalls, svcEnv, gsWatch,
                      hsVars, rcVars, chVars>>

GsFollowupNext ==
  \/ RunWaitingFollowup
  \/ ResolveWaitingFor
  \/ TimePasses

GsJobsNext ==
  \/ Start
  \/ TimerFires
  \/ TimePasses
  \/ AgentReconciles
  \/ AgentProcessesRuns
  \/ ResolveWaitingFor
  \/ OutsideJobAdded
  \/ OutsideJobRemoved

GsAgentsNext ==
  \/ Start
  \/ TimerFires
  \/ TimePasses
  \/ AgentReconciles
  \/ AgentProcessesRuns
  \/ ResolveWaitingFor

GsCalendarNext ==
  \/ Start
  \/ TimerFires
  \/ TimePasses
  \/ AgentReconciles
  \/ AgentProcessesRuns
  \/ CronRunCompletes

GsFiringsNext ==
  \/ Start
  \/ TimerFires
  \/ TimePasses
  \/ AgentReconciles
  \/ AgentProcessesRuns
  \/ CronRunCompletes

GsLifecycleNext ==
  \/ Start
  \/ Stop
  \/ TimerFires
  \/ TimePasses
  \/ AgentReconciles
  \/ AgentProcessesRuns
  \/ CronRunCompletes

GsReconcileNext ==
  \/ Start
  \/ TimerFires
  \/ TimePasses
  \/ AgentReconciles
  \/ AgentProcessesRuns

GsRunsNext ==
  \/ Start
  \/ TimerFires
  \/ TimePasses
  \/ AgentReconciles
  \/ AgentProcessesRuns
  \/ CronRunCompletes
  \/ CronRetrySucceeds

GsRestartsNext ==
  \/ Start
  \/ Stop
  \/ TimerFires
  \/ TimePasses
  \/ AgentReconciles
  \/ AgentProcessesRuns

GsFaultsNext ==
  \/ Start
  \/ TimerFires
  \/ TimePasses
  \/ AgentReconciles
  \/ AgentProcessesRuns

\* ------------------------------------------------------------------------
\* Codex handoff: the tracker (tracker.ts, policy.ts)
\* ------------------------------------------------------------------------
\* types.ts is not under src/; the phases are those that tracker.ts, policy.ts
\* and event-parser.ts name
CodexHandoffPhases ==
  {"queued", "running", "waiting-input", "stale", "done", "failed", "cancelled"}

\* policy.ts lines 3-5
isTerminalPhase(phase) == phase \in {"done", "failed", "cancelled"}

\* store.tasks.findIndex((entry) => entry.taskId === taskId) + 1: 0 when none
TaskIndex(tasks, taskId) ==
  IF \E i \in DOMAIN tasks : tasks[i].taskId = taskId
    THEN CHOOSE i \in DOMAIN tasks :
           tasks[i].taskId = taskId /\ \A j \in 1..(i - 1) : tasks[j].taskId # taskId
    ELSE 0

\* tracker.ts lines 116-122: the place in the store of the task found, whose
\* object the caller holds; 0 for undefined
getCodexHandoffTask(tasks, taskId) ==
  IF Trim(taskId) = <<>> THEN 0 ELSE TaskIndex(tasks, Trim(taskId))

\* tracker.ts lines 71-81
upsertTask(tasks, task) ==
  IF TaskIndex(tasks, task.taskId) # 0
    THEN [tasks EXCEPT ![TaskIndex(tasks, task.taskId)] = task]
    ELSE Append(tasks, task)

\* tracker.ts lines 83-114, of the fields kept here; monitorEnabled is what
\* resolveCodexHandoffConfig gives for params.config
registerCodexHandoffTask(tasks, taskId, runId, monitorEnabled, now) ==
  LET e == getCodexHandoffTask(tasks, taskId)
  IN upsertTask(tasks,
       [taskId |-> taskId, runId |-> runId,
        phase |-> IF e # 0 THEN tasks[e].phase ELSE "queued",
        terminal |-> IF e # 0 THEN tasks[e].terminal ELSE FALSE,
        createdAt |-> IF e # 0 THEN tasks[e].createdAt ELSE now,
        updatedAt |-> now,
        lastHeartbeatAt |-> IF e # 0 THEN tasks[e].lastHeartbeatAt ELSE Unset,
        lastEventAt |-> IF e # 0 THEN tasks[e].lastEventAt ELSE Unset,
        attempt |-> IF e # 0 THEN tasks[e].attempt ELSE 0,
        nextCheckAt |-> IF e # 0 THEN tasks[e].nextCheckAt ELSE Unset,
        monitorCronJobId |-> IF e # 0 THEN tasks[e].monitorCronJobId ELSE Unset,
        monitorEnabled |-> monitorEnabled])

\* the object found is changed in place and handed to upsertTask
Upserted(tasks, i, task) == IF i = 0 THEN tasks ELSE upsertTask([tasks EXCEPT ![i] = task], task)

\* tracker.ts lines 138-160; atMs: Unset when not given
markCodexHandoffPhase(tasks, taskId, phase, atMs, clockNow) ==
  LET i == getCodexHandoffTask(tasks, taskId)
      now == IF atMs # Unset THEN atMs ELSE clockNow
  IN Upserted(tasks, i,
       [tasks[i] EXCEPT !.phase = phase,
                        !.terminal = isTerminalPhase(phase),
                        !.updatedAt = now,
                        !.lastEventAt = now,
                        !.nextCheckAt = IF isTerminalPhase(phase) THEN Unset ELSE @])

\* tracker.ts lines 162-173
markCodexHandoffHeartbeat(tasks, taskId, atMs) ==
  LET i == getCodexHandoffTask(tasks, taskId)
  IN Upserted(tasks, i, [tasks[i] EXCEPT !.lastHeartbeatAt = atMs, !.updatedAt = atMs])

\* tracker.ts lines 175-187
bumpCodexHandoffAttempt(tasks, taskId, nextCheckAt, now) ==
  LET i == getCodexHandoffTask(tasks, taskId)
  IN Upserted(tasks, i, [tasks[i] EXCEPT !.attempt = @ + 1, !.updatedAt = now,
                                        !.nextCheckAt = nextCheckAt])

\* tracker.ts lines 189-200
bindCodexHandoffMonitorJob(tasks, taskId, cronJobId, now) ==
  LET i == getCodexHandoffTask(tasks, taskId)
  IN Upserted(tasks, i, [tasks[i] EXCEPT !.monitorCronJobId = cronJobId, !.updatedAt = now])

\* ------------------------------------------------------------------------
\* Codex handoff: bounds, inputs and initial state
\* ------------------------------------------------------------------------
\* calls of the tracker, and the values of its clock
MaxTrackerCalls == 4
MaxHandoffTime == 2

\* the task ids as callers give them
RawTaskIds == {<<"x">>, <<"x", " ">>}

\* the phases the calls of markCodexHandoffPhase give
PhasesGiven == {"running", "stale", "done", "cancelled"}

NoTrackerCall ==
  [op |-> "none", taskId |-> <<>>, atMs |-> Unset, before |-> <<>>, calls |-> 0,
   cfgEnabled |-> TRUE, issued |-> FALSE]

TrackerCall(op, taskId, atMs) ==
  [NoTrackerCall EXCEPT !.op = op, !.taskId = taskId, !.atMs = atMs,
                        !.before = handoffTasks, !.calls = chHist.calls + 1]

\* locals of an ensureCodexMonitorCron call: pc "none" (not in flight) or "add"
\* (at the await of cron.add, which answers with the id created)
EnsureIdle == [pc |-> "none", taskId |-> <<>>, created |-> Unset]

\* tracker.ts line 55: monitorIntervalSeconds of the default configuration
MonitorIntervalSeconds == 120

MaxEnsureCalls == 2

ChInit(watch) ==
  /\ chWatch = watch
  /\ handoffTasks = <<>>
  /\ handoffClock = 0
  /\ monitorCron = [jobs |-> <<>>, seq |-> 0]
  /\ ensureCalls = [s \in 1..MaxEnsureCalls |-> EnsureIdle]
  /\ chHist = NoTrackerCall

\* ------------------------------------------------------------------------
\* Codex handoff: the calls of the tracker
\* ------------------------------------------------------------------------
RegisterCodexHandoffTask ==
  \E taskId \in RawTaskIds, monitorEnabled \in BOOLEAN :
    /\ chHist.calls < MaxTrackerCalls
    /\ handoffTasks' = registerCodexHandoffTask(handoffTasks, taskId, <<"r">>,
                                                monitorEnabled, handoffClock)
    /\ chHist' = TrackerCall("register", taskId, Unset)
    /\ UNCHANGED <<handoffClock, monitorCron, ensureCalls, chWatch, hsVars, rcVars, gsVars>>

MarkCodexHandoffPhase ==
  \E taskId \in RawTaskIds, phase \in PhasesGiven :
    /\ chHist.calls < MaxTrackerCalls
    /\ handoffTasks' = markCodexHandoffPhase(handoffTasks, taskId, phase, Unset, handoffClock)
    /\ chHist' = TrackerCall("phase", taskId, Unset)
    /\ UNCHANGED <<handoffClock, monitorCron, ensureCalls, chWatch, hsVars, rcVars, gsVars>>

MarkCodexHandoffHeartbeat ==
  \E taskId \in RawTaskIds, atMs \in {handoffClock, MaxHandoffTime + 1} :
    /\ chHist.calls < MaxTrackerCalls
    /\ handoffTasks' = markCodexHandoffHeartbeat(handoffTasks, taskId, atMs)
    /\ chHist' = TrackerCall("heartbeat", taskId, atMs)
    /\ UNCHANGED <<handoffClock, monitorCron, ensureCalls, chWatch, hsVars, rcVars, gsVars>>

BumpCodexHandoffAttempt ==
  \E taskId \in RawTaskIds :
    /\ chHist.calls < MaxTrackerCalls
    /\ handoffTasks' = bumpCodexHandoffAttempt(handoffTasks, taskId, handoffClock + 1,
                                               handoffClock)
    /\ chHist' = TrackerCall("bump", taskId, Unset)
    /\ UNCHANGED <<handoffClock, monitorCron, ensureCalls, chWatch, hsVars, rcVars, gsVars>>

\* scheduler.ts line 29
MonitorJobName(taskId) == <<"codex-handoff-monitor", ":">> \o taskId

\* scheduler.ts lines 16-26: whether the call goes on to cron.add; cfgEnabled is
\* monitorEnabled of the configuration given
EnsureIssues(tasks, taskId, cfgEnabled) ==
  LET i == getCodexHandoffTask(tasks, taskId)
  IN /\ i # 0
     /\ ~tasks[i].terminal
     /\ tasks[i].monitorCronJobId = Unset
     /\ cfgEnabled
     /\ tasks[i].monitorEnabled

\* scheduler.ts lines 12-52: ensureCodexMonitorCron up to the await of cron.add;
\* the cron service adds the job under a new id
EnsureCodexMonitorCron ==
  \E s \in DOMAIN ensureCalls, taskId \in RawTaskIds, cfgEnabled \in BOOLEAN :
    LET issues == EnsureIssues(handoffTasks, taskId, cfgEnabled)
        task == handoffTasks[getCodexHandoffTask(handoffTasks, taskId)]
    IN /\ chHist.calls < MaxTrackerCalls
       /\ ensureCalls[s].pc = "none"
       /\ \A o \in DOMAIN ensureCalls : ensureCalls[o].pc = "none" => s <= o
       /\ IF issues
            THEN /\ monitorCron' =
                      [jobs |-> Append(monitorCron.jobs,
                                       [id |-> monitorCron.seq + 1,
                                        name |-> MonitorJobName(task.taskId),
                                        everyMs |-> MonitorIntervalSeconds * 1000]),
                       seq |-> monitorCron.seq + 1]
                 /\ ensureCalls' = [ensureCalls EXCEPT ![s] =
                                      [pc |-> "add", taskId |-> task.taskId,
                                       created |-> monitorCron.seq + 1]]
            ELSE UNCHANGED <<monitorCron, ensureCalls>>
       /\ chHist' = [TrackerCall("ensure", taskId, Unset) EXCEPT !.cfgEnabled = cfgEnabled,
                                                                 !.issued = issues]
       /\ UNCHANGED <<handoffTasks, handoffClock, chWatch, hsVars, rcVars, gsVars>>

\* scheduler.ts lines 54-57: cron.add has answered
EnsureResumes ==
  \E s \in DOMAIN ensureCalls :
    /\ ensureCalls[s].pc = "add"
    /\ handoffTasks' =
         bumpCodexHandoffAttempt(
           bindCodexHandoffMonitorJob(handoffTasks, ensureCalls[s].taskId,
                                      ensureCalls[s].created, handoffClock),
           ensureCalls[s].taskId, handoffClock + MonitorIntervalSeconds * 1000, handoffClock)
    /\ ensureCalls' = [ensureCalls EXCEPT ![s] = EnsureIdle]
    /\ chHist' = [chHist EXCEPT !.op = "resumed"]
    /\ UNCHANGED <<handoffClock, monitorCron, chWatch, hsVars, rcVars, gsVars>>

HandoffTimePasses ==
  /\ handoffClock < MaxHandoffTime
  /\ handoffClock' = handoffClock + 1
  /\ UNCHANGED <<handoffTasks, monitorCron, ensureCalls, chHist, chWatch,
                 hsVars, rcVars, gsVars>>

ChMonitorNext ==
  \/ RegisterCodexHandoffTask
  \/ MarkCodexHandoffPhase
  \/ EnsureCodexMonitorCron
  \/ EnsureResumes
  \/ HandoffTimePasses

ChTrackerNext ==
  \/ RegisterCodexHandoffTask
  \/ MarkCodexHandoffPhase
  \/ MarkCodexHandoffHeartbeat
  \/ BumpCodexHandoffAttempt
  \/ HandoffTimePasses

\* ------------------------------------------------------------------------
\* Hard-stop: keys, records and initial state
\* ------------------------------------------------------------------------
RootKey == <<"m">>
ChildA == <<"a">>
ChildB == <<"b">>
\* session keys as the caller passes them (params.sessionKey)
RawRootKeys == {RootKey, <<"m", " ">>}
\* childSessionKey values as the sub-agent registry holds them
RawChildKeys == {ChildA, <<" ", "a">>, ChildB, <<" ">>}
PlainChildKeys == {ChildA, ChildB}
\* scope keys processes register under
ScopeKeys == {RootKey, ChildA, ChildB}

\* no session id (store[sessionKey]?.sessionId is undefined)
NoId == <<>>
SessionIdOf(key) == <<"sid">> \o key
\* the session store: it holds an entry for one child session only, so the root
\* session id comes from the caller or is absent
loadSessionStore(key) == IF key = ChildA THEN SessionIdOf(ChildA) ELSE NoId
\* the embedded run host: every session with an id has a run to abort
abortEmbeddedPiRun(sessionId) == Len(sessionId) > 0

\* lines 176 and 204 without the test of the session id: the hook is invoked
\* with whatever was resolved
abortHookCalls_WithoutTest(sessionId) ==
  {sessionId}

\* lines 176 and 204: the calls of the abort hook, made only with a session id
abortHookCalls(sessionId) ==
  IF sessionId # NoId THEN {sessionId} ELSE {}

Slots == 1..MaxProcs
RunIds == 1..MaxSubRuns

NoProc == [st |-> "none", scopeKey |-> <<>>, hasPid |-> FALSE]
ExitedProc == [st |-> "exited", scopeKey |-> <<>>, hasPid |-> FALSE]
NoRun == [st |-> "none", childSessionKey |-> <<>>]

EmptySummary(scopeKey) ==
  [scopeKey |-> scopeKey, observed |-> 0, sigtermRequested |-> 0,
   forceKilled |-> 0, remaining |-> 0]

EmptyTotals ==
  [observed |-> 0, sigtermRequested |-> 0, forceKilled |-> 0, remaining |-> 0]

HsIdle ==
  [sessionKey |-> <<>>, sessionId |-> NoId, abortedRun |-> FALSE,
   queuesCleared |-> {}, abortCalls |-> {},
   rootProcesses |-> EmptySummary(<<>>),
   subagentProcesses |-> EmptyTotals,
   subagentRunsTerminated |-> 0, subagentSessionsHandled |-> 0,
   subagentRunsAborted |-> 0,
   terminatedRuns |-> {}, scopesDone |-> <<>>,
   summary |-> EmptySummary(<<>>),
   todo |-> <<>>, cause |-> "none", replyText |-> <<>>,
   listedRuns |-> {}, endedBefore |-> {}, childSummaries |-> <<>>]

HistIdle ==
  [n0 |-> 0, m0 |-> 0, procsDuring |-> 0, runsDuring |-> 0,
   lastReturned |-> FALSE, procsLeft |-> FALSE, activeLeft |-> FALSE,
   stopped |-> FALSE, quiet |-> FALSE,
   inSuccession |-> FALSE, prevProcsLeft |-> FALSE, prevActiveLeft |-> FALSE,
   prevStopped |-> FALSE]

HsInit(watch) ==
  /\ hsWatch = watch
  /\ procs = [p \in Slots |-> NoProc]
  /\ subRuns = [r \in RunIds |-> NoRun]
  /\ hsPc = "idle"
  /\ hs = HsIdle
  /\ hsLog = <<>>
  /\ hsCalls = 0
  /\ hsHist = HistIdle

\* ------------------------------------------------------------------------
\* Hard-stop: registries (bash-process-registry, subagent-registry)
\* ------------------------------------------------------------------------
listRunningSessions(reg) == {p \in Slots : reg[p].st = "running"}

activeScopedSessions(reg, scopeKey) ==
  {p \in listRunningSessions(reg) : reg[p].scopeKey = scopeKey}

\* markExited(session, null, "SIGKILL", "killed") for every session of a set
markExited(reg, done) == [p \in Slots |-> IF p \in done THEN ExitedProc ELSE reg[p]]

listDescendantRunsForRequester(runs) == {r \in RunIds : runs[r].st # "none"}

\* lines 186-189 without the test of endedAt: every descendant run is terminated
activeDescendants_IgnoringEndedAt(runs) == listDescendantRunsForRequester(runs)

\* lines 186-189: the descendant runs whose endedAt is not a number
activeDescendants(runs) ==
  {r \in listDescendantRunsForRequester(runs) : runs[r].st = "active"}

\* markSubagentRunTerminated({runId, reason: "killed"}) for every run of a set
markSubagentRunTerminated(runs, killed) ==
  [r \in RunIds |-> IF r \in killed THEN [runs[r] EXCEPT !.st = "ended"] ELSE runs[r]]

\* the child session keys trimmed and filtered, without the Set: a key that two
\* runs share is kept twice
RECURSIVE DistinctTrimmed_KeepingRepeats(_, _)
DistinctTrimmed_KeepingRepeats(keys, seen) ==
  IF keys = <<>> THEN <<>>
  ELSE LET k == Trim(Head(keys))
       IN IF k = <<>>
            THEN DistinctTrimmed_KeepingRepeats(Tail(keys), seen)
            ELSE <<k>> \o DistinctTrimmed_KeepingRepeats(Tail(keys), seen \cup {k})

\* Array.from(new Set(keys.map(trim).filter(nonEmpty))): first occurrences, in order
RECURSIVE DistinctTrimmed(_, _)
DistinctTrimmed(keys, seen) ==
  IF keys = <<>> THEN <<>>
  ELSE LET k == Trim(Head(keys))
       IN IF k = <<>> \/ k \in seen
            THEN DistinctTrimmed(Tail(keys), seen)
            ELSE <<k>> \o DistinctTrimmed(Tail(keys), seen \cup {k})

childSessionKeysOf(runs) ==
  LET order == SortedSeq(listDescendantRunsForRequester(runs))
  IN DistinctTrimmed([i \in 1..Len(order) |-> runs[order[i]].childSessionKey], {})

\* ------------------------------------------------------------------------
\* Hard-stop: hardStopProcessScope, before and after its escalation wait
\* ------------------------------------------------------------------------
Event(ev, scopeKey, slot) == [ev |-> ev, scopeKey |-> scopeKey, slot |-> slot]

\* lines 109-130: list the scope, SIGTERM every session with a pid (a throwing
\* process.kill is swallowed and not counted), then cancelScope.
\* sigOk: the sessions whose process.kill does not throw.
hardStopSignal(reg, scopeKey, sigOk) ==
  LET observed == SortedSeq(activeScopedSessions(reg, scopeKey))
  IN [summary |-> [EmptySummary(scopeKey) EXCEPT
                     !.observed = Len(observed),
                     !.sigtermRequested =
                        Cardinality({p \in Range(observed) : reg[p].hasPid /\ p \in sigOk})],
      log |-> [i \in 1..Len(observed) |->
                 Event(IF ~reg[observed[i]].hasPid THEN "noPid"
                       ELSE IF observed[i] \in sigOk THEN "sigterm"
                       ELSE "sigtermThrew",
                       scopeKey, observed[i])]
              \o <<Event("cancelScope", scopeKey, 0)>>]

RECURSIVE EscalateLog(_, _, _)
EscalateLog(order, reg, scopeKey) ==
  IF order = <<>> THEN <<>>
  ELSE (IF reg[Head(order)].hasPid
          THEN <<Event("killProcessTree", scopeKey, Head(order))>>
          ELSE <<>>)
       \o <<Event("markExited", scopeKey, Head(order))>>
       \o EscalateLog(Tail(order), reg, scopeKey)

\* lines 132-144 with forceKilled also counting the sessions sent SIGTERM
hardStopEscalate_CountingSignalled(reg, summary, failAt) ==
  LET scopeKey == summary.scopeKey
      remaining == activeScopedSessions(reg, scopeKey)
      done == {p \in remaining : failAt = 0 \/ p < failAt}
      threw == failAt \in remaining
  IN [reg |-> markExited(reg, done),
      summary |-> [summary EXCEPT
                     !.remaining = Cardinality(remaining),
                     !.forceKilled = summary.sigtermRequested
                                       + Cardinality({p \in done : reg[p].hasPid})],
      threw |-> threw,
      log |-> <<Event("sleep", scopeKey, 0)>>
              \o EscalateLog(SortedSeq(done), reg, scopeKey)
              \o (IF threw THEN <<Event("killThrew", scopeKey, failAt)>> ELSE <<>>)]

\* lines 132-144 with the wait moved behind the kill loop
hardStopEscalate_WaitingLast(reg, summary, failAt) ==
  LET scopeKey == summary.scopeKey
      remaining == activeScopedSessions(reg, scopeKey)
      done == {p \in remaining : failAt = 0 \/ p < failAt}
      threw == failAt \in remaining
  IN [reg |-> markExited(reg, done),
      summary |-> [summary EXCEPT
                     !.remaining = Cardinality(remaining),
                     !.forceKilled = Cardinality({p \in done : reg[p].hasPid})],
      threw |-> threw,
      log |-> EscalateLog(SortedSeq(done), reg, scopeKey)
              \o (IF threw THEN <<Event("killThrew", scopeKey, failAt)>> ELSE <<>>)
              \o <<Event("sleep", scopeKey, 0)>>]

\* lines 132-144: after the wait, list the scope again, kill the tree of every
\* session with a pid and mark every session exited.
\* failAt: the session whose killProcessTree throws (0: none does); the loop
\* stops there and the exception leaves hardStopProcessScope.
hardStopEscalate(reg, summary, failAt) ==
  LET scopeKey == summary.scopeKey
      remaining == activeScopedSessions(reg, scopeKey)
      done == {p \in remaining : failAt = 0 \/ p < failAt}
      threw == failAt \in remaining
  IN [reg |-> markExited(reg, done),
      summary |-> [summary EXCEPT
                     !.remaining = Cardinality(remaining),
                     !.forceKilled = Cardinality({p \in done : reg[p].hasPid})],
      threw |-> threw,
      log |-> <<Event("sleep", scopeKey, 0)>>
              \o EscalateLog(SortedSeq(done), reg, scopeKey)
              \o (IF threw THEN <<Event("killThrew", scopeKey, failAt)>> ELSE <<>>)]

\* the sessions whose killProcessTree may be the one that throws
MayFail(reg, scopeKey) ==
  {0} \cup {p \in activeScopedSessions(reg, scopeKey) : reg[p].hasPid}

\* the choices of sessions whose SIGTERM goes through
MaySignal(reg, scopeKey) ==
  SUBSET {p \in activeScopedSessions(reg, scopeKey) : reg[p].hasPid}

\* ------------------------------------------------------------------------
\* Hard-stop: hardStopSessionExecution
\* ------------------------------------------------------------------------
\* a process is registered under the session's scope or a descendant's scope
ProcsLeft(reg, runs, sessionKey) ==
  \E p \in listRunningSessions(reg) :
    \/ reg[p].scopeKey = sessionKey
    \/ \E r \in listDescendantRunsForRequester(runs) :
         reg[p].scopeKey = Trim(runs[r].childSessionKey)

\* the observer's record, kept only under the specification that watches it
Logged(log) == IF hsWatch \in {"order", "cascade"} THEN log ELSE <<>>
Counted(n) == IF hsWatch = "counts" THEN n ELSE 0
Cascaded(x, none) == IF hsWatch = "cascade" THEN x ELSE none

\* the counts and the cascade are taken of one call
CallsWatched == IF hsWatch \in {"counts", "cascade"} THEN 1 ELSE MaxCalls

\* lines 147-162 with the plural noun whatever the count
formatHardStopReplyText_AlwaysPlural(result) ==
  LET processCount == result.rootProcesses.forceKilled + result.subagentProcesses.forceKilled
      subagentCount == result.subagentRunsTerminated
  IN IF processCount <= 0 /\ subagentCount <= 0
       THEN <<"Agent was aborted.">>
     ELSE IF subagentCount <= 0
       THEN <<"Agent was aborted.", "Stopped", ToString(processCount), "processes", ".">>
     ELSE IF processCount <= 0
       THEN <<"Agent was aborted.", "Stopped", ToString(subagentCount), "sub-agents", ".">>
     ELSE <<"Agent was aborted.", "Stopped", ToString(processCount), "processes",
            "and", ToString(subagentCount), "sub-agents", ".">>

\* lines 147-162: the reply, as the words of its sentences
formatHardStopReplyText(result) ==
  LET processCount == result.rootProcesses.forceKilled + result.subagentProcesses.forceKilled
      processLabel == IF processCount = 1 THEN "process" ELSE "processes"
      subagentCount == result.subagentRunsTerminated
      subagentLabel == IF subagentCount = 1 THEN "sub-agent" ELSE "sub-agents"
  IN IF processCount <= 0 /\ subagentCount <= 0
       THEN <<"Agent was aborted.">>
     ELSE IF subagentCount <= 0
       THEN <<"Agent was aborted.", "Stopped", ToString(processCount), processLabel, ".">>
     ELSE IF processCount <= 0
       THEN <<"Agent was aborted.", "Stopped", ToString(subagentCount), subagentLabel, ".">>
     ELSE <<"Agent was aborted.", "Stopped", ToString(processCount), processLabel,
            "and", ToString(subagentCount), subagentLabel, ".">>

\* lines 214-236: the result is built and returned, and the caller formats the
\* reply from it
HsReturn(reg, runs, h, log) ==
  /\ hsPc' = "returned"
  /\ hs' = [h EXCEPT !.replyText = formatHardStopReplyText(h)]
  /\ procs' = reg
  /\ subRuns' = runs
  /\ hsLog' = Logged(log)
  /\ hsHist' = [hsHist EXCEPT
       !.inSuccession = hsHist.lastReturned /\ hsHist.quiet,
       !.prevProcsLeft = hsHist.procsLeft,
       !.prevActiveLeft = hsHist.activeLeft,
       !.prevStopped = hsHist.stopped,
       !.stopped = (h.rootProcesses.forceKilled + h.subagentProcesses.forceKilled
                      + h.subagentRunsTerminated > 0),
       !.lastReturned = TRUE,
       !.procsLeft = ProcsLeft(reg, runs, h.sessionKey),
       !.activeLeft = \E r \in RunIds : runs[r].st = "active",
       !.quiet = TRUE]

\* an exception leaves hardStopSessionExecution: the promise rejects
HsReject(reg, runs, h, log, cause) ==
  /\ hsPc' = "rejected"
  /\ hs' = [h EXCEPT !.cause = cause]
  /\ procs' = reg
  /\ subRuns' = runs
  /\ hsLog' = Logged(log)
  /\ hsHist' = [hsHist EXCEPT !.lastReturned = FALSE, !.inSuccession = FALSE]

\* lines 201-207 for the next child session key, up to the escalation wait of
\* its process scope; lines 214-236 when no child session key is left.
\* storeThrew: loadSessionStore throws
HsNextChild(reg, runs, h, log, storeThrew, sigOk) ==
  IF h.todo = <<>>
    THEN HsReturn(reg, runs, h, log)
    ELSE
      LET childSessionKey == Head(h.todo)
          childSessionId == loadSessionStore(childSessionKey)
          sig == hardStopSignal(reg, childSessionKey, sigOk)
          calls == <<Event("clearSessionQueues", childSessionKey, 0)>>
                   \o (IF childSessionId # NoId
                         THEN <<Event("abortEmbeddedPiRun", childSessionKey, 0)>>
                         ELSE <<>>)
      IN IF storeThrew
           THEN HsReject(reg, runs, h, log, "store")
           ELSE
             /\ hsPc' = "childWait"
             /\ hs' = [h EXCEPT
                  !.queuesCleared = @ \cup ({childSessionKey, childSessionId} \ {NoId}),
                  !.abortCalls = @ \cup abortHookCalls(childSessionId),
                  !.subagentRunsAborted =
                     @ + (IF childSessionId # NoId /\ abortEmbeddedPiRun(childSessionId)
                            THEN 1 ELSE 0),
                  !.summary = sig.summary,
                  !.todo = Tail(@)]
             /\ procs' = reg
             /\ subRuns' = runs
             /\ hsLog' = Logged(log \o Cascaded(calls, <<>>) \o sig.log)
             /\ UNCHANGED hsHist

\* the inputs of HsNextChild that make a difference for the next key of todo
ChildInputs(reg, todo) ==
  IF todo = <<>>
    THEN {[storeThrew |-> FALSE, sigOk |-> {}]}
    ELSE {[storeThrew |-> TRUE, sigOk |-> {}]}
         \cup [storeThrew : {FALSE}, sigOk : MaySignal(reg, Head(todo))]

\* lines 170-132: a call, up to the escalation wait of the root scope
hardStopInvoke(rawKey, givenId, storeThrew, sigOk) ==
  LET sessionKey == Trim(rawKey)
      sessionId == IF givenId # NoId THEN givenId ELSE loadSessionStore(sessionKey)
      sig == hardStopSignal(procs, sessionKey, sigOk)
      h == [HsIdle EXCEPT !.sessionKey = sessionKey, !.sessionId = sessionId]
  IN
  /\ hsPc \in {"idle", "returned", "rejected"}
  /\ hsCalls < CallsWatched
  /\ hsCalls' = hsCalls + 1
  /\ UNCHANGED <<hsWatch, rcVars, gsVars, chVars>>
  /\ IF givenId = NoId /\ storeThrew
       THEN /\ HsReject(procs, subRuns, h, <<>>, "store")
       ELSE
         /\ hsPc' = "rootWait"
         /\ hs' = [h EXCEPT
              !.queuesCleared = {sessionKey, sessionId} \ {NoId},
              !.abortCalls = abortHookCalls(sessionId),
              !.abortedRun = (sessionId # NoId /\ abortEmbeddedPiRun(sessionId)),
              !.summary = sig.summary]
         /\ hsLog' = Logged(sig.log)
         /\ hsHist' = [hsHist EXCEPT
              !.n0 = Counted(Cardinality(listRunningSessions(procs))),
              !.m0 = Counted(Cardinality({r \in RunIds : subRuns[r].st = "active"})),
              !.procsDuring = 0,
              !.runsDuring = 0]
         /\ UNCHANGED <<procs, subRuns>>

HS_Invoke ==
  \E rawKey \in RawRootKeys :
    \/ hardStopInvoke(rawKey, NoId, TRUE, {})
    \/ \E givenId \in {NoId, SessionIdOf(RootKey)},
          sigOk \in MaySignal(procs, Trim(rawKey)) :
         hardStopInvoke(rawKey, givenId, FALSE, sigOk)

\* lines 132-207: the root scope after its wait, the descendant runs, and the
\* first child session key up to its wait
hardStopRootEscalate(failAt, in) ==
  LET esc == hardStopEscalate(procs, hs.summary, failAt)
      log == hsLog \o esc.log
      active == activeDescendants(subRuns)
      h == [hs EXCEPT
              !.rootProcesses = esc.summary,
              !.summary = esc.summary,
              !.scopesDone = Append(@, esc.summary.scopeKey)]
      h2 == [h EXCEPT
              !.todo = childSessionKeysOf(subRuns),
              !.subagentSessionsHandled = Len(childSessionKeysOf(subRuns)),
              !.terminatedRuns = active,
              !.subagentRunsTerminated = Cardinality(active),
              !.listedRuns = Cascaded(listDescendantRunsForRequester(subRuns), {}),
              !.endedBefore = Cascaded({r \in RunIds : subRuns[r].st = "ended"}, {})]
  IN
  /\ hsPc = "rootWait"
  /\ UNCHANGED <<hsCalls, hsWatch, rcVars, gsVars, chVars>>
  /\ IF esc.threw
       THEN HsReject(esc.reg, subRuns, h, log, "kill")
       ELSE HsNextChild(esc.reg, markSubagentRunTerminated(subRuns, active),
                        h2, log, in.storeThrew, in.sigOk)

NoInput == [storeThrew |-> FALSE, sigOk |-> {}]

HS_RootEscalate ==
  /\ hsPc = "rootWait"
  /\ \/ \E failAt \in MayFail(procs, hs.summary.scopeKey) \ {0} :
          hardStopRootEscalate(failAt, NoInput)
     \/ \E in \in ChildInputs(procs, childSessionKeysOf(subRuns)) :
          hardStopRootEscalate(0, in)

\* lines 207-212, then the next child session key up to its wait
hardStopChildEscalate(failAt, in) ==
  LET esc == hardStopEscalate(procs, hs.summary, failAt)
      log == hsLog \o esc.log
      h == [hs EXCEPT
              !.summary = esc.summary,
              !.scopesDone = Append(@, esc.summary.scopeKey)]
      h2 == [h EXCEPT
              !.subagentProcesses =
                 [observed |-> @.observed + esc.summary.observed,
                  sigtermRequested |-> @.sigtermRequested + esc.summary.sigtermRequested,
                  forceKilled |-> @.forceKilled + esc.summary.forceKilled,
                  remaining |-> @.remaining + esc.summary.remaining],
              !.childSummaries = Cascaded(Append(@, esc.summary), <<>>)]
  IN
  /\ hsPc = "childWait"
  /\ UNCHANGED <<hsCalls, hsWatch, rcVars, gsVars, chVars>>
  /\ IF esc.threw
       THEN HsReject(esc.reg, subRuns, h, log, "kill")
       ELSE HsNextChild(esc.reg, subRuns, h2, log, in.storeThrew, in.sigOk)

HS_ChildEscalate ==
  /\ hsPc = "childWait"
  /\ \/ \E failAt \in MayFail(procs, hs.summary.scopeKey) \ {0} :
          hardStopChildEscalate(failAt, NoInput)
     \/ \E in \in ChildInputs(procs, hs.todo) :
          hardStopChildEscalate(0, in)

\* ------------------------------------------------------------------------
\* Hard-stop: what the rest of the program does meanwhile
\* ------------------------------------------------------------------------
InCall == hsPc \in {"rootWait", "childWait"}

\* the registries change before a hard-stop call and while one is suspended; a
\* call that follows another follows it directly
EnvMayAct == hsPc \in {"idle", "rootWait", "childWait"}

\* a tool starts a process: it is registered under its session's scope key
RegisterProcess ==
  \E p \in Slots, scopeKey \in ScopeKeys, hasPid \in BOOLEAN :
    /\ EnvMayAct
    /\ procs[p].st = "none"
    /\ \A q \in Slots : q < p => procs[q].st # "none"
    /\ procs' = [procs EXCEPT ![p] =
                   [st |-> "running", scopeKey |-> scopeKey, hasPid |-> hasPid]]
    /\ hsHist' = [hsHist EXCEPT
         !.quiet = FALSE,
         !.procsDuring = IF InCall THEN Counted(@ + 1) ELSE @]
    /\ UNCHANGED <<subRuns, hsPc, hs, hsLog, hsCalls, hsWatch, rcVars, gsVars, chVars>>

\* a process ends by itself (or on SIGTERM) and its registry entry is marked
\* exited; one that ended before the call is simply not in the registry
ProcessExits ==
  \E p \in listRunningSessions(procs) :
    /\ InCall
    /\ procs' = markExited(procs, {p})
    /\ UNCHANGED <<subRuns, hsPc, hs, hsLog, hsCalls, hsHist, hsWatch, rcVars, gsVars, chVars>>

\* the session delegates to a sub-agent: a descendant run is registered
RegisterSubagentRun(keys) ==
  \E r \in RunIds, childSessionKey \in keys :
    /\ EnvMayAct
    /\ subRuns[r].st = "none"
    /\ \A q \in RunIds : q < r => subRuns[q].st # "none"
    /\ subRuns' = [subRuns EXCEPT ![r] =
                     [st |-> "active", childSessionKey |-> childSessionKey]]
    /\ hsHist' = [hsHist EXCEPT
         !.quiet = FALSE,
         !.runsDuring = IF InCall THEN Counted(@ + 1) ELSE @]
    /\ UNCHANGED <<procs, hsPc, hs, hsLog, hsCalls, hsWatch, rcVars, gsVars, chVars>>

\* a sub-agent run ends by itself: endedAt is set
SubagentRunEnds ==
  \E r \in RunIds :
    /\ EnvMayAct
    /\ subRuns[r].st = "active"
    /\ subRuns' = [subRuns EXCEPT ![r].st = "ended"]
    /\ UNCHANGED <<procs, hsPc, hs, hsLog, hsCalls, hsHist, hsWatch, rcVars, gsVars, chVars>>

HsNext ==
  \/ HS_Invoke
  \/ HS_RootEscalate
  \/ HS_ChildEscalate
  \/ RegisterProcess
  \/ ProcessExits
  \/ RegisterSubagentRun(PlainChildKeys)
  \/ SubagentRunEnds

\* the descendant runs carry child session keys as the registry holds them:
\* padded, blank, shared by two runs, or the key of the requester itself
CascadeChildKeys == RawChildKeys \cup {RootKey}

HsCascadeNext ==
  \/ HS_Invoke
  \/ HS_RootEscalate
  \/ HS_ChildEscalate
  \/ RegisterProcess
  \/ ProcessExits
  \/ RegisterSubagentRun(CascadeChildKeys)
  \/ SubagentRunEnds

\* the hard-stop cascade, with the order of its signals recorded
SpecHardStop == HsInit("order") /\ RcInit("off") /\ GsInit("off") /\ ChInit("off") /\ [][HsNext]_vars

\* the hard-stop cascade, with the processes and runs of each call counted
SpecHardStopCounts == HsInit("counts") /\ RcInit("off") /\ GsInit("off") /\ ChInit("off") /\ [][HsNext]_vars

\* one hard-stop call over such descendant runs, with its calls recorded
SpecCascade == HsInit("cascade") /\ RcInit("off") /\ GsInit("off") /\ ChInit("off") /\ [][HsCascadeNext]_vars

\* ------------------------------------------------------------------------
\* Hard-stop: properties
\* ------------------------------------------------------------------------
ForceKilledTotal == hs.rootProcesses.forceKilled + hs.subagentProcesses.forceKilled

\* C1: when hardStopSessionExecution returns, no process is registered under the
\* session's scope key or under the scope key of a descendant session, also when
\* processes were registered while the call was suspended in an escalation wait.
C1_NoProcessLeftAtReturn ==
  hsPc = "returned" => ~hsHist.procsLeft

SecondInSuccession ==
  /\ hsPc = "returned"
  /\ hsHist.inSuccession
  /\ ~hsHist.prevProcsLeft

StoppedNothing ==
  /\ hs.rootProcesses.forceKilled = 0
  /\ hs.subagentProcesses.forceKilled = 0
  /\ hs.subagentRunsTerminated = 0

SignalEvents == {"noPid", "sigterm", "sigtermThrew", "cancelScope"}
KillEvents == {"killProcessTree", "markExited"}

\* C4: within the termination of one process scope, every observed session has
\* had its SIGTERM issued (those with a pid) and cancelScope has been requested
\* before the escalation wait, and every force-kill and every markExited comes
\* after that wait.
C4_SignalThenWaitThenKill ==
  \A i \in DOMAIN hsLog :
    hsLog[i].ev \in KillEvents =>
      \E w \in 1..(i - 1) :
        /\ hsLog[w].ev = "sleep"
        /\ hsLog[w].scopeKey = hsLog[i].scopeKey
        /\ \E c \in 1..(w - 1) :
             hsLog[c].ev = "cancelScope" /\ hsLog[c].scopeKey = hsLog[i].scopeKey
        /\ \A j \in DOMAIN hsLog :
             (hsLog[j].ev \in SignalEvents /\ hsLog[j].scopeKey = hsLog[i].scopeKey)
               => j < w

\* C4 witness: a process was sent SIGTERM, outlived the wait and was force-killed.
C4_Witness ==
  \E i, j \in DOMAIN hsLog :
    /\ hsLog[i].ev = "sigterm"
    /\ hsLog[j].ev = "killProcessTree"
    /\ hsLog[i].slot = hsLog[j].slot
    /\ \E k \in DOMAIN hsLog : hsLog[k].ev = "noPid"

\* C5: the only failure of a sub-step that reaches the caller of
\* hardStopSessionExecution is an unreadable session store; a failing force-kill
\* does not end the call.
C5_OnlyStoreFailureReachesCaller ==
  hsPc = "rejected" => hs.cause = "store"

\* ------------------------------------------------------------------------
\* Run recovery: specifications
\* ------------------------------------------------------------------------
\* the store and the recovery passes of one process
SpecRecovery == HsInit("off") /\ RcInit("pass") /\ GsInit("off") /\ ChInit("off") /\ [][RcNext]_vars

\* the store and the recovery passes over the restarts of the process
SpecRecoveryRestarts == HsInit("off") /\ RcInit("restarts") /\ GsInit("off") /\ ChInit("off") /\ [][RcRestartsNext]_vars

\* one recovery pass over one run, with every transcript
\* the store file as it is found at startup, and each call that writes it
SpecStoreFile == HsInit("off") /\ RcInit("file") /\ GsInit("off") /\ ChInit("off") /\ [][RcFileNext]_vars

\* runs are registered again and resumed as time passes; when each was first
\* registered is noted
SpecRunAge == HsInit("off") /\ RcInit("age") /\ GsInit("off") /\ ChInit("off") /\ [][RcAgeNext]_vars

SpecDecision == HsInit("off") /\ RcInit("decision") /\ GsInit("off") /\ ChInit("off") /\ [][RcDecisionNext]_vars

\* ------------------------------------------------------------------------
\* Run recovery: properties
\* ------------------------------------------------------------------------
StoredRuns == loadPersistedGatewayChatRuns(file)

\* the entry is as markRunInFlight registered it: recovery has not touched it
FreshlyMarked(e) == e.recoveryAttempts = Unset /\ e.lastRecoveryAtMs = Unset

\* the entry matches every filter the pass was given
MatchesFilters(r, e) ==
  /\ r.source \in Sources => e.source = r.source
  /\ r.accountId \notin {NoAcct, <<>>} => e.accountId = r.accountId

\* the age and the attempts at which a run is given up
TooOld(r, e) == r.now - e.startedAtMs > 2 * 60 * 60 * 1000
TooManyAttempts(e) == e.recoveryAttempts # Unset /\ e.recoveryAttempts >= 3

LastRoleUser(t) ==
  t.session = "ok" /\ t.messages = "some" /\ t.kind = "object" /\ t.role = "user"

\* C6: a run registered with markRunInFlight and met by a recovery pass with a
\* transcript whose last message has role user is resumed exactly once in that
\* pass and is in the store after the pass with recoveryAttempts = 1; and an entry
\* whose resume returned true is in the store after the pass.
C6_ResumedOnceAndKept ==
  \A i \in DOMAIN rc.loaded :
    LET e == rc.loaded[i]
        k == e.runId
    IN /\ ( /\ FreshlyMarked(e)
            /\ MatchesFilters(rc, e)
            /\ ~TooOld(rc, e)
            /\ LastRoleUser(rc.transcript[k]) )
          => /\ rc.resumeCalls[k] = 1
             /\ rcPc = "done" =>
                  /\ MapHas(StoredRuns, k)
                  /\ MapGet(StoredRuns, k).recoveryAttempts = 1
       /\ (rcPc = "done" /\ rc.outcome[k] = "true") => MapHas(StoredRuns, k)

\* C6 witness: a pass is done that resumed a freshly registered run with a user
\* transcript, resume having returned true, and the store holds it with one attempt.
C6_Witness ==
  /\ rcPc = "done"
  /\ \E i \in DOMAIN rc.loaded :
       LET e == rc.loaded[i]
           k == e.runId
       IN /\ FreshlyMarked(e)
          /\ LastRoleUser(rc.transcript[k])
          /\ rc.resumeCalls[k] = 1
          /\ rc.outcome[k] = "true"
          /\ MapHas(StoredRuns, k)
          /\ MapGet(StoredRuns, k).recoveryAttempts = 1

\* C7: a selected run that is older than MAX_RUN_AGE_MS (2 hours) at the pass's
\* time, or has 3 or more recovery attempts, is not resumed by the pass and is not
\* in the store after the pass, whatever its transcript.
C7_ExpiredDeletedWithoutResume ==
  \A i \in DOMAIN rc.loaded :
    LET e == rc.loaded[i]
        k == e.runId
    IN (MatchesFilters(rc, e) /\ (TooOld(rc, e) \/ TooManyAttempts(e)))
         => /\ rc.resumeCalls[k] = 0
            /\ rcPc = "done" => ~MapHas(StoredRuns, k)

\* C7 witness: a pass is done that met a run with 3 attempts, not too old and
\* with a transcript ending in a user message, and deleted it without resuming.
C7_Witness ==
  /\ rcPc = "done"
  /\ \E i \in DOMAIN rc.loaded :
       LET e == rc.loaded[i]
           k == e.runId
       IN /\ TooManyAttempts(e)
          /\ ~TooOld(rc, e)
          /\ rc.transcript[k] = LastUser
          /\ rc.resumeCalls[k] = 0
          /\ ~MapHas(StoredRuns, k)

\* the same for a run that is too old and has fewer than 3 attempts
C7_TooOldDeleted ==
  /\ rcPc = "done"
  /\ \E i \in DOMAIN rc.loaded :
       LET e == rc.loaded[i]
           k == e.runId
       IN /\ ~TooManyAttempts(e)
          /\ TooOld(rc, e)
          /\ rc.transcript[k] = LastUser
          /\ rc.resumeCalls[k] = 0
          /\ ~MapHas(StoredRuns, k)

\* C8: over the restarts of the process, also those after a crash in the middle
\* of a recovery pass, resume never succeeding, resume is invoked for a persisted
\* run at most MAX_RECOVERY_ATTEMPTS (3) times in total.
C8_ResumeAtMostThreeTimes ==
  \A k \in RunKeys : rcResumes[k] <= 3

\* the stop reason of the last message as the decision reads it
\* (trimmed, case-insensitive)
NormalStopReason(t) ==
  IF t.stopReason = NotAString THEN <<>> ELSE ToLower(Trim(t.stopReason))

HasToolBlock(t) ==
  /\ t.content # NotAnArray
  /\ \E i \in DOMAIN t.content : t.content[i] \in {"toolUse", "toolCall", "functionCall"}

TerminalStopReasons ==
  {<<"s","t","o","p">>, <<"e","n","d","_","t","u","r","n">>,
   <<"e","n","d","t","u","r","n">>, <<"e","r","r","o","r">>,
   <<"a","b","o","r","t","e","d">>}

\* the decision table, given the stop reasons that ask for a resume by themselves
ResumeTable(t, resumeReasons) ==
  /\ t.session = "ok"
  /\ t.messages = "some"
  /\ t.kind = "object"
  /\ \/ t.role \in {"user", "toolResult"}
     \/ /\ t.role = "assistant"
        /\ NormalStopReason(t) \notin TerminalStopReasons
        /\ (NormalStopReason(t) \in resumeReasons \/ HasToolBlock(t))

\* what a pass does to the entries it decides on follows the table
DecidesBy(resumeReasons) ==
  \A k \in RunKeys :
    rc.did[k] # "none" =>
      IF ResumeTable(rc.transcript[k], resumeReasons)
        THEN rc.resumeCalls[k] = 1
        ELSE /\ rc.resumeCalls[k] = 0
             /\ rcPc = "done" => ~MapHas(StoredRuns, k)

\* C9 as claimed: the stop reasons tool_use and tool_calls ask for a resume, every
\* other non-terminal stop reason leaves the decision to the content's blocks.
C9_DecisionAsClaimed ==
  DecidesBy({<<"t","o","o","l","_","u","s","e">>,
             <<"t","o","o","l","_","c","a","l","l","s">>})

\* C9 as amended: the stop reason tooluse (the lower-cased toolUse) asks for a
\* resume as tool_use and tool_calls do.
C9_DecisionWithTooluse ==
  DecidesBy({<<"t","o","o","l","u","s","e">>,
             <<"t","o","o","l","_","u","s","e">>,
             <<"t","o","o","l","_","c","a","l","l","s">>})

\* C9 witness: a run is resumed on an assistant message with stop reason toolUse
\* and no tool block in its content.
C9_Witness ==
  \E k \in RunKeys :
    /\ rc.did[k] = "resumed"
    /\ rc.transcript[k].role = "assistant"
    /\ rc.transcript[k].stopReason = <<"t","o","o","l","U","s","e">>
    /\ ~HasToolBlock(rc.transcript[k])

\* the three fields of an entry a pass must leave alone
SameRecoveryFields(e, f) ==
  /\ f.startedAtMs = e.startedAtMs
  /\ f.recoveryAttempts = e.recoveryAttempts
  /\ f.lastRecoveryAtMs = e.lastRecoveryAtMs

\* C10: a step of a recovery pass called with filters leaves every entry of the
\* store that does not match them (and did not when the pass read the store) in
\* the store, with startedAtMs, recoveryAttempts and lastRecoveryAtMs unchanged,
\* and does not resume it.
C10_FilteredPassLeavesOthers ==
  [][ (rcPc' # rcPc /\ rcPc' \in {"awaiting", "done"}) =>
        \A k \in RunKeys :
          ( /\ MapHas(StoredRuns, k)
            /\ ~MatchesFilters(rc', MapGet(StoredRuns, k))
            /\ MapHas(rc'.loaded, k) => ~MatchesFilters(rc', MapGet(rc'.loaded, k)) )
            => /\ MapHas(loadPersistedGatewayChatRuns(file'), k)
               /\ SameRecoveryFields(MapGet(StoredRuns, k),
                                     MapGet(loadPersistedGatewayChatRuns(file'), k))
               /\ rc'.cur # k ]_vars

\* ------------------------------------------------------------------------
\* Run recovery: the store file and the calls that write it
\* ------------------------------------------------------------------------
\* the file holds an entry for the run that has no source field
LegacyIn(f, k) ==
  /\ f.exists /\ f.json = "store"
  /\ \E i \in DOMAIN f.runs :
       /\ f.runs[i].runId = k
       /\ LoadableRun(f.runs[i])
       /\ f.runs[i].source = NoSource

\* C11: an entry the pass read from the file without a source field is loaded
\* with source chat_send; a pass filtered on chat_send that comes to it, finds
\* it neither expired nor complete, calls resume with an entry whose source is
\* chat_send; a pass filtered on whatsapp_auto_reply skips it, never calls
\* resume for it and leaves it in the store.
C11_LegacyEntryIsChatSend ==
  \A k \in RunKeys :
    (rcPc \in {"awaiting", "done"} /\ LegacyIn(rc.read, k)) =>
      /\ MapHas(rc.loaded, k)
      /\ MapGet(rc.loaded, k).source = "chat_send"
      /\ ( /\ rc.source = "chat_send"
           /\ rc.transcript[k] # NotRead
           /\ ~RcExpired(rc, MapGet(rc.loaded, k))
           /\ shouldResumeFromTranscript(rc.transcript[k]) )
           => /\ rc.did[k] = "resumed"
              /\ rc.resumeCalls[k] = 1
              /\ MapGet(rc.runs, k).source = "chat_send"
      /\ rc.source = "whatsapp_auto_reply"
           => /\ rc.did[k] \in {"none", "skipped"}
              /\ rc.resumeCalls[k] = 0
              /\ rcPc = "done" => /\ rc.did[k] = "skipped"
                                  /\ MapHas(StoredRuns, k)

\* a pass filtered on chat_send awaits resume for an entry read without source
C11_Witness ==
  /\ rcPc = "awaiting"
  /\ rc.cur = <<"x">>
  /\ rc.source = "chat_send"
  /\ LegacyIn(rc.read, <<"x">>)
  /\ MapGet(rc.runs, <<"x">>).source = "chat_send"

\* a pass filtered on whatsapp_auto_reply has ended over an entry read without source
C11_SkippedByOtherSource ==
  /\ rcPc = "done"
  /\ rc.source = "whatsapp_auto_reply"
  /\ LegacyIn(rc.read, <<"x">>)
  /\ rc.did[<<"x">>] = "skipped"

\* the versions of the store file the program knows: 1 (no source) and 2
RecognizedVersions == {1, CHAT_RUN_RECOVERY_VERSION}

\* C12: a pass that read a file that is missing, does not parse, or carries a
\* version the program does not know, found an empty store: it calls resume
\* for no entry and ends.
C12_UnreadableFileIsEmptyStore ==
  ( /\ rcPc \in {"awaiting", "done"}
    /\ \/ ~rc.read.exists
       \/ rc.read.json = "invalid"
       \/ rc.read.version \notin RecognizedVersions )
    => /\ rc.loaded = <<>>
       /\ rcPc = "done"
       /\ \A k \in RunKeys : rc.resumeCalls[k] = 0

\* the store as the program reads it, before and after the last call
StoreBefore == loadPersistedGatewayChatRuns(rcLast.before)
StoreAfter == loadPersistedGatewayChatRuns(rcLast.after)

\* every entry but the run's is in the store after the call as it was before
OthersUntouched(k) ==
  /\ MapKeys(StoreAfter) \ {k} = MapKeys(StoreBefore) \ {k}
  /\ \A o \in MapKeys(StoreBefore) \ {k} : MapGet(StoreAfter, o) = MapGet(StoreBefore, o)

\* C13: markRunInFlight for a persisted runId keeps the entry's startedAtMs,
\* recoveryAttempts and lastRecoveryAtMs and sets updatedAtMs to now; for a new
\* runId it creates an entry with startedAtMs = now and no recoveryAttempts;
\* no other entry of the store changes.
C13_MarkIsIdempotentRearm ==
  LET k == Trim(rcLast.runId)
  IN (rcLast.op = "mark" /\ k # <<>> /\ Trim(rcLast.sessionKey) # <<>>
        /\ rcLast.source # NoSource) =>
       /\ MapHas(StoreAfter, k)
       /\ MapGet(StoreAfter, k).updatedAtMs = rcLast.now
       /\ MapHas(StoreBefore, k) =>
            /\ MapGet(StoreAfter, k).startedAtMs = MapGet(StoreBefore, k).startedAtMs
            /\ MapGet(StoreAfter, k).recoveryAttempts = MapGet(StoreBefore, k).recoveryAttempts
            /\ MapGet(StoreAfter, k).lastRecoveryAtMs = MapGet(StoreBefore, k).lastRecoveryAtMs
            /\ MapGet(StoreAfter, k).updatedAtMs >= MapGet(StoreBefore, k).updatedAtMs
       /\ ~MapHas(StoreBefore, k) =>
            /\ MapGet(StoreAfter, k).startedAtMs = rcLast.now
            /\ MapGet(StoreAfter, k).recoveryAttempts = Unset
       /\ OthersUntouched(k)

\* a run that was resumed once is registered again later, beside another entry
C13_Witness ==
  LET k == Trim(rcLast.runId)
  IN /\ rcLast.op = "mark"
     /\ MapHas(StoreBefore, k)
     /\ MapGet(StoreBefore, k).recoveryAttempts = 1
     /\ MapGet(StoreBefore, k).startedAtMs < rcLast.now
     /\ MapGet(StoreAfter, k).updatedAtMs = rcLast.now
     /\ MapKeys(StoreBefore) \ {k} # {}

\* C14: clearRunInFlight removes the entry of the trimmed runId when it is
\* present and leaves every other entry as it was; when the runId is absent,
\* or empty once trimmed, the file is not written; either way the store holds
\* no entry for the runId afterwards.
C14_ClearRemovesOnlyTheRun ==
  LET k == Trim(rcLast.runId)
  IN rcLast.op = "clear" =>
       /\ (k # <<>> /\ MapHas(StoreBefore, k)) =>
            /\ ~MapHas(StoreAfter, k)
            /\ OthersUntouched(k)
       /\ (k = <<>> \/ ~MapHas(StoreBefore, k)) => rcLast.after = rcLast.before
       /\ k # <<>> => ~MapHas(StoreAfter, k)

\* a run registered by markRunInFlight is cleared, by a runId with white space
\* around it, beside another entry
C14_Witness ==
  LET k == Trim(rcLast.runId)
  IN /\ rcLast.op = "clear"
     /\ rcLast.runId # k
     /\ MapHas(StoreBefore, k)
     /\ MapGet(StoreBefore, k).updatedAtMs = 1
     /\ ~MapHas(StoreAfter, k)
     /\ MapKeys(StoreAfter) # {}


\* ------------------------------------------------------------------------
\* Scheduler: specifications
\* ------------------------------------------------------------------------
\* one agent with a follow-up whose time has passed; the service starts and
\* its timer fires as time passes
SpecReconcile == HsInit("off") /\ RcInit("off") /\ GsInit("reconcile") /\ ChInit("off") /\ [][GsReconcileNext]_vars

\* the same, with waiting items resolved and jobs added by others between passes
SpecJobs == HsInit("off") /\ RcInit("off") /\ GsInit("jobs") /\ ChInit("off") /\ [][GsJobsNext]_vars

\* the follow-up of a waiting item, run on the states an agent can have
SpecFollowup == HsInit("off") /\ RcInit("off") /\ GsInit("followup") /\ ChInit("off") /\ [][GsFollowupNext]_vars

\* the same, with the cron service completing runs of the jobs
SpecRuns == HsInit("off") /\ RcInit("off") /\ GsInit("runs") /\ ChInit("off") /\ [][GsRunsNext]_vars

\* one agent; the host stops and starts the service while ticks are in flight
SpecRestarts == HsInit("off") /\ RcInit("off") /\ GsInit("restarts") /\ ChInit("off") /\ [][GsRestartsNext]_vars

\* two agents; reading and writing the state files and the gateway calls fail
\* the scheduler with the runs the cron service completes noted
SpecFirings == HsInit("off") /\ RcInit("off") /\ GsInit("firings") /\ ChInit("off") /\ [][GsFiringsNext]_vars

\* the same with the steps the event loop guarantees: start() is called, the
\* clock advances, the interval fires, and every await of a tick resumes, so
\* that a tick in flight settles
SpecFiringsFair ==
  /\ SpecFirings
  /\ WF_vars(Start)
  /\ WF_vars(TimePasses)
  /\ WF_vars(TimerFires)
  /\ []<>(TicksInFlight = {})

\* the scheduler with calendar syncs that fail
SpecCalendar == HsInit("off") /\ RcInit("off") /\ GsInit("calendar") /\ ChInit("off") /\ [][GsCalendarNext]_vars

\* the scheduler with agent ids of which one begins another
SpecAgents == HsInit("off") /\ RcInit("off") /\ GsInit("agents") /\ ChInit("off") /\ [][GsAgentsNext]_vars

\* the calls of the codex-handoff tracker
SpecTracker ==
  HsInit("off") /\ RcInit("off") /\ GsInit("off") /\ ChInit("tracker") /\ [][ChTrackerNext]_vars

\* the monitor jobs of the codex-handoff tasks
SpecMonitor ==
  HsInit("off") /\ RcInit("off") /\ GsInit("off") /\ ChInit("monitor") /\ [][ChMonitorNext]_vars

\* the scheduler stopped and started again, with the runs of the cron service
SpecLifecycle ==
  HsInit("off") /\ RcInit("off") /\ GsInit("lifecycle") /\ ChInit("off") /\ [][GsLifecycleNext]_vars

SpecFaults == HsInit("off") /\ RcInit("off") /\ GsInit("faults") /\ ChInit("off") /\ [][GsFaultsNext]_vars

\* ------------------------------------------------------------------------
\* Scheduler: reconciliation
\* ------------------------------------------------------------------------
\* C15 as claimed: a reconciliation pass of an agent that starts from the
\* persisted state and the cron jobs the agent's pass before it left, only time
\* having advanced, issues no cron.add, cron.update or cron.remove call.
C15_SecondReconcileIssuesNoCalls ==
  \A a \in AgentIds :
    (gsHist.rec[a].again /\ gsHist.rec[a].at > gsHist.rec[a].prevAt)
      => gsHist.rec[a].calls = 0

\* ------------------------------------------------------------------------
\* Scheduler: processing of the runs
\* ------------------------------------------------------------------------
\* C16 as claimed: over any sequence of ticks the effect handler of a job key
\* is invoked at most once for each run timestamp of the key.
C16_HandlerOncePerRunTimestamp ==
  \A i, j \in DOMAIN gsHist.handled :
    gsHist.handled[i] = gsHist.handled[j] => i = j

\* C17 as claimed: a tick that meets a run newer than the marker of its key
\* whose status is not success invokes no handler and leaves the marker where
\* it was.
C17_FailedRunLeavesMarker ==
  \A i \in DOMAIN gsHist.seen :
    gsHist.seen[i].status # "ok"
      => /\ ~gsHist.seen[i].invoked
         /\ gsHist.seen[i].after = gsHist.seen[i].before

\* C18 as claimed: a tick that meets a new successful run of a key and invokes
\* its handler leaves the marker of the key at the timestamp of the run, however
\* the handler ended.
C18_MarkerAdvancesWhateverOutcome ==
  \A i \in DOMAIN gsHist.seen :
    gsHist.seen[i].invoked => gsHist.seen[i].after = gsHist.seen[i].runAtMs

\* ------------------------------------------------------------------------
\* Scheduler: the service
\* ------------------------------------------------------------------------
\* C19 as claimed: a firing of the timer while a tick of the service is in
\* flight starts no tick: it returns at once and is skipped.
C19_FiringSkippedWhileTickInFlight ==
  (gsHist.firing.fired /\ gsHist.firing.inFlight) => ~gsHist.firing.started

\* the agents of a tick that raised an exception
RaisedIn(tickNoted) == {x[1] : x \in tickNoted.raised}

\* C20 as claimed: a tick lets no exception out, records every exception as
\* scheduler.lastError in the persisted state of the agent that raised it, and
\* ticks every configured agent whatever an agent before it raised.
C20_TickCatchesEveryException ==
  gsHist.lastTick.done
    => /\ ~gsHist.lastTick.escaped
       /\ RaisedIn(gsHist.lastTick) \subseteq gsHist.lastTick.recorded
       /\ Range(gsHist.lastTick.agents) \subseteq gsHist.lastTick.ticked

\* ------------------------------------------------------------------------
\* Hard-stop: the reply and the cascade
\* ------------------------------------------------------------------------
\* the noun of a count: singular exactly for one
Noun(count, singular, plural) == IF count = 1 THEN singular ELSE plural

\* C21: the reply of a returned call is one of four sentences, chosen by whether
\* the force-kill total and the number of terminated sub-agent runs are zero,
\* and each noun is singular exactly when its count is 1.
C21_ReplyIsOneOfFourSentences ==
  hsPc = "returned" =>
    LET n == ForceKilledTotal
        m == hs.subagentRunsTerminated
        processes == <<ToString(n), Noun(n, "process", "processes")>>
        subagents == <<ToString(m), Noun(m, "sub-agent", "sub-agents")>>
    IN /\ (n = 0 /\ m = 0) => hs.replyText = <<"Agent was aborted.">>
       /\ (n > 0 /\ m = 0) =>
            hs.replyText = <<"Agent was aborted.", "Stopped">> \o processes \o <<".">>
       /\ (n = 0 /\ m > 0) =>
            hs.replyText = <<"Agent was aborted.", "Stopped">> \o subagents \o <<".">>
       /\ (n > 0 /\ m > 0) =>
            hs.replyText = <<"Agent was aborted.", "Stopped">> \o processes
                             \o <<"and">> \o subagents \o <<".">>

\* C21 witness: a call returned having force-killed one process and terminated
\* two sub-agent runs.
C21_Witness ==
  /\ hsPc = "returned"
  /\ ForceKilledTotal = 1
  /\ hs.subagentRunsTerminated = 2

\* the other sentences are reached too: nothing stopped, and two processes only
C21_BareSentence ==
  hsPc = "returned" /\ ForceKilledTotal = 0 /\ hs.subagentRunsTerminated = 0

C21_ProcessesOnly ==
  hsPc = "returned" /\ ForceKilledTotal = 2 /\ hs.subagentRunsTerminated = 0

\* how often the call made a call of a kind for a scope
CountEvents(ev, scopeKey) ==
  Cardinality({i \in DOMAIN hsLog : hsLog[i].ev = ev /\ hsLog[i].scopeKey = scopeKey})

\* how often an element occurs in a sequence
Occurrences(seq, x) == Cardinality({i \in DOMAIN seq : seq[i] = x})

RECURSIVE SumSeq(_)
SumSeq(seq) == IF seq = <<>> THEN 0 ELSE Head(seq) + SumSeq(Tail(seq))

\* the distinct non-empty trimmed child session keys of the runs the call listed
ListedChildKeys == {Trim(subRuns[r].childSessionKey) : r \in hs.listedRuns} \ {<<>>}

\* C22: when a call returns, exactly the listed descendant runs that had not
\* ended were marked terminated; every distinct non-empty trimmed child session
\* key had its reply queues cleared once, the abort of its embedded run
\* attempted once where a session id resolves, and its process scope terminated
\* once, and no other key was handled; subagentSessionsHandled is the number of
\* these keys and the subagentProcesses totals are the sums over their scopes.
C22_CascadeHandlesEachChildOnce ==
  hsPc = "returned" =>
    LET children == Tail(hs.scopesDone)
        sums == hs.childSummaries
    IN /\ hs.terminatedRuns = hs.listedRuns \ hs.endedBefore
       /\ hs.subagentRunsTerminated = Cardinality(hs.listedRuns \ hs.endedBefore)
       /\ \A k \in ListedChildKeys :
            /\ CountEvents("clearSessionQueues", k) = 1
            /\ CountEvents("abortEmbeddedPiRun", k)
                 = (IF loadSessionStore(k) # NoId THEN 1 ELSE 0)
            /\ Occurrences(children, k) = 1
       /\ Range(children) \subseteq ListedChildKeys
       /\ hs.subagentSessionsHandled = Cardinality(ListedChildKeys)
       /\ [i \in DOMAIN sums |-> sums[i].scopeKey] = children
       /\ hs.subagentProcesses =
            [observed |-> SumSeq([i \in DOMAIN sums |-> sums[i].observed]),
             sigtermRequested |-> SumSeq([i \in DOMAIN sums |-> sums[i].sigtermRequested]),
             forceKilled |-> SumSeq([i \in DOMAIN sums |-> sums[i].forceKilled]),
             remaining |-> SumSeq([i \in DOMAIN sums |-> sums[i].remaining])]

\* C22 witness: a call returned over two descendant runs that share a child
\* session key once trimmed, one of them ended before the call listed them, and
\* a process of the child scope was force-killed.
C22_Witness ==
  /\ hsPc = "returned"
  /\ Cardinality(hs.listedRuns) = 2
  /\ ListedChildKeys = {ChildA}
  /\ Cardinality(hs.endedBefore) = 1
  /\ Cardinality(hs.terminatedRuns) = 1
  /\ hs.subagentProcesses.forceKilled = 1

\* two child sessions are handled too
C22_TwoChildSessions ==
  /\ hsPc = "returned"
  /\ ListedChildKeys = {ChildA, ChildB}
  /\ hs.subagentProcesses.forceKilled = 2

\* a call given no session id, for whose key the session store was read and
\* holds none
CallWithoutSessionId ==
  /\ hsPc \in {"rootWait", "childWait", "returned", "rejected"}
  /\ hs.sessionId = NoId
  /\ hs.queuesCleared # {}

\* C23: a call for which no session id is given or resolves never invokes the
\* abort hook for its session and reports abortedRun false; it clears the reply
\* queues of the session and starts the termination of the root scope, and when
\* it returns the root scope was terminated first and the descendant cascade ran.
C23_NoSessionIdIsNoError ==
  CallWithoutSessionId =>
    /\ ~hs.abortedRun
    /\ hs.abortCalls \subseteq {loadSessionStore(k) : k \in ListedChildKeys} \ {NoId}
    /\ hs.sessionKey \in hs.queuesCleared
    /\ CountEvents("cancelScope", hs.sessionKey) >= 1
    /\ hsPc = "returned" =>
         /\ Head(hs.scopesDone) = hs.sessionKey
         /\ hs.rootProcesses.scopeKey = hs.sessionKey
         /\ Range(Tail(hs.scopesDone)) = ListedChildKeys
         /\ hs.terminatedRuns = hs.listedRuns \ hs.endedBefore

\* C23 witness: such a call returned, having force-killed a process of the
\* root scope, terminated a descendant run and handled its child session.
C23_Witness ==
  /\ CallWithoutSessionId
  /\ hsPc = "returned"
  /\ hs.rootProcesses.forceKilled >= 1
  /\ hs.terminatedRuns # {}
  /\ Len(hs.scopesDone) >= 2

\* C27 as claimed: when a call returns, cancelScope was invoked exactly once for
\* the root session scope and exactly once for the scope of each distinct child
\* session key, and for no other scope, also when a child session key is the
\* root session key or two descendant runs share a key.
C27_CancelScopeOncePerScope ==
  hsPc = "returned" =>
    /\ \A k \in {hs.sessionKey} \cup ListedChildKeys : CountEvents("cancelScope", k) = 1
    /\ \A i \in DOMAIN hsLog :
         hsLog[i].ev = "cancelScope"
           => hsLog[i].scopeKey \in {hs.sessionKey} \cup ListedChildKeys

\* ------------------------------------------------------------------------
\* Run recovery: failures of resume, the write of a pass, the age of a run
\* ------------------------------------------------------------------------
\* what a pass does with an entry it loaded, given the transcript it met
RcDecision(k) ==
  LET entry == MapGet(rc.loaded, k)
  IN IF ~RcSelected(rc, entry) THEN "skipped"
     ELSE IF RcExpired(rc, entry) THEN "expired"
     ELSE IF ~shouldResumeFromTranscript(rc.transcript[k]) THEN "dropped"
     ELSE "resumed"

RcFailed == {k \in MapKeys(rc.loaded) : rc.outcome[k] \in {"false", "threw"}}

C24_FalseThenExpired ==
  /\ rcPc = "done"
  /\ Len(rc.loaded) = 2
  /\ rc.outcome[rc.loaded[1].runId] = "false"
  /\ rc.did[rc.loaded[2].runId] \in {"expired", "dropped"}

\* ------------------------------------------------------------------------
\* Scheduler: the jobs a reconciliation pass leaves
\* ------------------------------------------------------------------------
\* lines 763-764: the jobs under the namespace and the agent's prefix
ManagedJobs(agentId, jobs) ==
  SelectSeq(jobs, LAMBDA job : StartsWith(job.name, <<JOB_NAMESPACE, ":">> \o agentId \o <<":">>))

WaitingKey(agentId, item) == buildJobKey(agentId, <<"waiting", ":">> \o item.id)

\* C25: after a reconciliation pass that completed, every key desired for the
\* state and time of the pass names exactly one managed job, which carries the
\* desired comparable fields; every managed job is named by a desired key; and
\* no job is left for a waiting item that is not active.
C25_ManagedJobsAreTheDesiredJobs ==
  \A a \in AgentIds :
    LET rec == gsHist.rec[a]
        desired == buildDesiredCronJobs(a, rec.state, rec.at)
        managed == ManagedJobs(a, rec.jobs)
    IN rec.ok =>
         /\ \A i \in DOMAIN desired :
              LET same == {j \in DOMAIN managed : managed[j].name = desired[i].key}
              IN /\ Cardinality(same) = 1
                 /\ \A j \in same : jobMatchesDesired(managed[j], desired[i])
         /\ \A j \in DOMAIN managed :
              managed[j].name \in {desired[i].key : i \in DOMAIN desired}
         /\ \A w \in DOMAIN rec.state.waitingFor :
              rec.state.waitingFor[w].status # "active"
                => \A j \in DOMAIN rec.jobs :
                     rec.jobs[j].name # WaitingKey(a, rec.state.waitingFor[w])

\* C25 witness: a pass completed for an agent whose waiting item was resolved
\* since the pass before; the item's job was there before the pass.
C25_Witness ==
  \E a \in AgentIds :
    LET rec == gsHist.rec[a]
    IN /\ rec.ok
       /\ \E w \in DOMAIN rec.state.waitingFor :
            /\ rec.state.waitingFor[w].status = "resolved"
            /\ \E j \in DOMAIN rec.before :
                 rec.before[j].name = WaitingKey(a, rec.state.waitingFor[w])

\* a pass completed that met two jobs under one desired name and a job under
\* the agent's prefix that no key desires
C25_DuplicateAndStaleMet ==
  \E a \in AgentIds :
    LET rec == gsHist.rec[a]
        managed == ManagedJobs(a, rec.before)
    IN /\ rec.ok
       /\ \E i, j \in DOMAIN managed : i # j /\ managed[i].name = managed[j].name
       /\ \E j \in DOMAIN managed : managed[j].name = StaleWaitingJob(a).key

\* ------------------------------------------------------------------------
\* Scheduler: the follow-up of a waiting item
\* ------------------------------------------------------------------------
\* the item the last follow-up was run for, in the state before it and after it
FollowupItems(state) ==
  {i \in DOMAIN state.waitingFor : state.waitingFor[i].id = gsHist.followup.waitingId}

\* the target has a channel and a recipient that are not blank, and its key is
\* on the allowlist of the configuration
MayAutoSend(waiting) ==
  /\ waiting.deliveryTarget # <<>>
  /\ \E i \in DOMAIN waiting.deliveryTarget[1].channel :
       waiting.deliveryTarget[1].channel[i] \notin WhiteSpace
  /\ \E i \in DOMAIN waiting.deliveryTarget[1].to :
       waiting.deliveryTarget[1].to[i] \notin WhiteSpace
  /\ buildAutoSendAllowKey(waiting.deliveryTarget[1])
       \in Range(PluginConfig.autonomy.followup.autoSendAllowlist)

DraftCaptured(before, after) ==
  /\ Len(after.inboxItems) = Len(before.inboxItems) + 1
  /\ after.inboxItems[Len(after.inboxItems)].source = "scheduler.waiting.draft_confirm"

\* C26: a follow-up sends only for an active item whose target has a channel
\* and a recipient and an allowlisted key; for any other active item it sends
\* nothing, captures a draft and moves the follow-up time to now plus the
\* cadence; a send that succeeds moves it to now plus the cadence, a send that
\* fails to now plus 6 hours; an item that is not active is left as it was.
C26_FollowupSendsOnlyToAllowlisted ==
  LET f == gsHist.followup
  IN f.n > 0 =>
       \A i \in FollowupItems(f.before) :
         LET waiting == f.before.waitingFor[i]
             then == f.after.waitingFor[i]
             cadence == f.now + waiting.followupCadenceDays * DAY_MS
         IN /\ waiting.status # "active" => f.after = f.before /\ f.sent = <<>>
            /\ f.sent # <<>> => waiting.status = "active" /\ MayAutoSend(waiting)
            /\ waiting.status = "active" /\ ~MayAutoSend(waiting)
                 => /\ f.sent = <<>>
                    /\ DraftCaptured(f.before, f.after)
                    /\ then.followupAtMs = cadence
            /\ waiting.status = "active" /\ MayAutoSend(waiting) /\ f.ok
                 => /\ Len(f.sent) = 1
                    /\ then.followupAtMs = cadence
                    /\ f.after.inboxItems = f.before.inboxItems
            /\ waiting.status = "active" /\ MayAutoSend(waiting) /\ ~f.ok
                 => then.followupAtMs = f.now + 6 * 60 * 60 * 1000

\* C26 witness: a follow-up was sent to a target whose key is on the allowlist
\* once it is normalised, and the send succeeded.
C26_Witness ==
  /\ gsHist.followup.n > 0
  /\ gsHist.followup.ok
  /\ \E i \in DOMAIN gsHist.followup.sent : gsHist.followup.sent[i].channel = <<"T">>

\* a draft was captured for a target that is not allowlisted
C26_DraftForUnlisted ==
  /\ gsHist.followup.n > 0
  /\ gsHist.followup.sent = <<>>
  /\ \E i \in FollowupItems(gsHist.followup.before) :
       /\ gsHist.followup.before.waitingFor[i].status = "active"
       /\ gsHist.followup.before.waitingFor[i].deliveryTarget
            = <<DeliveryTarget(<<"t">>, <<"c">>)>>
       /\ gsHist.followup.before.waitingFor[i].followupCadenceDays = 5

\* a send failed
C26_SendError ==
  /\ gsHist.followup.n > 0
  /\ gsHist.followup.sent # <<>>
  /\ ~gsHist.followup.ok

\* the follow-up ran for an item that had been resolved
C26_ItemResolved ==
  /\ gsHist.followup.n > 0
  /\ \E i \in FollowupItems(gsHist.followup.before) :
       gsHist.followup.before.waitingFor[i].status = "resolved"

\* ------------------------------------------------------------------------
\* Run recovery: registrations that are not made
\* ------------------------------------------------------------------------
MarkIsIncomplete ==
  \/ Trim(rcLast.runId) = <<>>
  \/ Trim(rcLast.sessionKey) = <<>>
  \/ rcLast.source = NoSource

\* C28: markRunInFlight with a runId or a sessionKey that is blank, or with no
\* source, leaves the file as it was: nothing is written, whatever the file
\* holds, and no entry is created or changed.
C28_IncompleteMarkIsNoOp ==
  (rcLast.op = "mark" /\ MarkIsIncomplete) => rcLast.after = rcLast.before

\* C28 witness: a run was registered with a blank session key while the file
\* held what a write would have replaced; the same with no source, and with a
\* blank runId, is reached too.
C28_Witness ==
  /\ rcLast.op = "mark"
  /\ Trim(rcLast.runId) # <<>>
  /\ rcLast.source # NoSource
  /\ rcLast.sessionKey = <<" ">>
  /\ savePersistedGatewayChatRuns(loadPersistedGatewayChatRuns(rcLast.before)) # rcLast.before

\* a run was registered with no source
C28_NoSource ==
  /\ rcLast.op = "mark"
  /\ rcLast.source = NoSource
  /\ Trim(rcLast.sessionKey) # <<>>
  /\ MapHas(StoreBefore, Trim(rcLast.runId))

\* a run was registered with a blank runId
C28_BlankRunId ==
  /\ rcLast.op = "mark"
  /\ rcLast.runId = <<" ">>
  /\ rcLast.source # NoSource
  /\ Trim(rcLast.sessionKey) # <<>>

\* ------------------------------------------------------------------------
\* Run recovery: the write of a pass
\* ------------------------------------------------------------------------
\* an entry was deleted or resumed by the pass
RcTouched(r) == \E k \in RunKeys : r.did[k] \in {"expired", "dropped", "resumed"}

C29_NothingToWrite ==
  /\ rcPc = "done"
  /\ \E k \in RunKeys : rc.did[k] = "skipped"
  /\ ~RcTouched(rc)
  /\ file = rc.read
  /\ savePersistedGatewayChatRuns(loadPersistedGatewayChatRuns(file)) # file

\* ------------------------------------------------------------------------
\* Run recovery: the age of a run
\* ------------------------------------------------------------------------
\* C30: the entry of a run carries as startedAtMs the time the run was first
\* registered, whatever registrations and passes came after; and a pass that
\* selects a run first registered more than MAX_RUN_AGE_MS before the time of
\* the pass expires it.
C30_AgeRunsFromFirstRegistration ==
  /\ \A k \in MapKeys(loadPersistedGatewayChatRuns(file)) :
       rcLast.first[k] # Unset
         => MapGet(loadPersistedGatewayChatRuns(file), k).startedAtMs = rcLast.first[k]
  /\ rcPc \in {"awaiting", "done"} =>
       \A k \in MapKeys(rc.loaded) :
         (rc.did[k] # "none" /\ RcSelected(rc, MapGet(rc.loaded, k))
          /\ rcLast.first[k] # Unset /\ rc.now - rcLast.first[k] > MAX_RUN_AGE_MS)
           => rc.did[k] = "expired"

\* the age restarts: a pass resumes a run first registered more than
\* MAX_RUN_AGE_MS before it
C30_ResumedPastItsAge ==
  /\ rcPc \in {"awaiting", "done"}
  /\ \E k \in MapKeys(rc.loaded) :
       /\ rc.did[k] = "resumed"
       /\ rcLast.first[k] # Unset
       /\ rc.now - rcLast.first[k] > MAX_RUN_AGE_MS

\* ------------------------------------------------------------------------
\* Scheduler: jobs of one name, and the refs a pass leaves
\* ------------------------------------------------------------------------
\* the ids of the jobs of a name
IdsOfName(jobs, name) == {jobs[j].id : j \in {i \in DOMAIN jobs : jobs[i].name = name}}

LeastOf(ids) == CHOOSE id \in ids : \A other \in ids : id <= other

\* the ids a pass issued a method for
IssuedFor(rec, method) ==
  {rec.issued[c].id : c \in {i \in DOMAIN rec.issued : rec.issued[i].method = method}}

\* C31: a pass that completed and met several jobs under a desired name left
\* the job of the first id, removed each of the others, updated none of the
\* others, updated the kept one exactly when it did not match the desired
\* job, and bound the ref of the key to the id of the kept job.
C31_FirstIdOfDuplicatesIsKept ==
  \A a \in AgentIds :
    LET rec == gsHist.rec[a]
        desired == buildDesiredCronJobs(a, rec.state, rec.at)
        met == callCronList([jobs |-> rec.before])
    IN rec.ok =>
         \A d \in DOMAIN desired :
           LET ids == IdsOfName(met, desired[d].key)
               kept == LeastOf(ids)
               job == met[CHOOSE j \in DOMAIN met : met[j].id = kept]
           IN Cardinality(ids) > 1 =>
                /\ IdsOfName(rec.jobs, desired[d].key) = {kept}
                /\ IssuedFor(rec, "cron.remove") \cap ids = ids \ {kept}
                /\ IssuedFor(rec, "cron.update") \cap ids
                     = IF jobMatchesDesired(job, desired[d]) THEN {} ELSE {kept}
                /\ \E i \in DOMAIN rec.state.scheduler.jobs :
                     /\ rec.state.scheduler.jobs[i].key = desired[d].key
                     /\ rec.state.scheduler.jobs[i].cronJobId = kept

\* C31 witness: a pass completed that met two jobs of one desired name, listed
\* with the later id first, and kept the job of the first id.
C31_Witness ==
  \E a \in AgentIds :
    LET rec == gsHist.rec[a]
    IN /\ rec.ok
       /\ \E i, j \in DOMAIN rec.before :
            /\ i < j
            /\ rec.before[i].name = rec.before[j].name
            /\ rec.before[i].id > rec.before[j].id
            /\ StartsWith(rec.before[i].name, buildJobKey(a, <<>>))
            /\ rec.before[i].name # StaleWaitingJob(a).key
            /\ IdsOfName(rec.jobs, rec.before[i].name) = {rec.before[j].id}

\* C32: after a reconciliation pass that completed, the scheduler state holds
\* at most one ref per key and only refs of desired keys; the ref of a key
\* bound to the job id it was bound to before the pass has the createdAtMs
\* and updatedAtMs it had, and a ref whose updatedAtMs changed is bound to
\* another id than before.
C32_RefsAreUniqueAndStable ==
  \A a \in AgentIds :
    LET rec == gsHist.rec[a]
        refs == rec.state.scheduler.jobs
        desired == buildDesiredCronJobs(a, rec.state, rec.at)
    IN rec.ok =>
         /\ \A i, j \in DOMAIN refs : refs[i].key = refs[j].key => i = j
         /\ \A i \in DOMAIN refs : refs[i].key \in {desired[d].key : d \in DOMAIN desired}
         /\ \A i \in DOMAIN refs : \A p \in DOMAIN rec.refsBefore :
              rec.refsBefore[p].key = refs[i].key =>
                /\ rec.refsBefore[p].cronJobId = refs[i].cronJobId
                     => /\ refs[i].createdAtMs = rec.refsBefore[p].createdAtMs
                        /\ refs[i].updatedAtMs = rec.refsBefore[p].updatedAtMs
                /\ refs[i].updatedAtMs # rec.refsBefore[p].updatedAtMs
                     => refs[i].cronJobId # rec.refsBefore[p].cronJobId

\* C32 witness: a later pass completed that kept the binding of one key, with
\* the times of the pass before, and bound another key to a new job id; the
\* ref of a waiting item resolved since is gone.
C32_Witness ==
  \E a \in AgentIds :
    LET rec == gsHist.rec[a]
        refs == rec.state.scheduler.jobs
    IN /\ rec.ok
       /\ \E i \in DOMAIN refs : \E p \in DOMAIN rec.refsBefore :
            /\ rec.refsBefore[p].key = refs[i].key
            /\ rec.refsBefore[p].cronJobId = refs[i].cronJobId
            /\ refs[i].updatedAtMs < rec.at
       /\ \E i \in DOMAIN refs : \E p \in DOMAIN rec.refsBefore :
            /\ rec.refsBefore[p].key = refs[i].key
            /\ rec.refsBefore[p].cronJobId # refs[i].cronJobId
            /\ refs[i].createdAtMs < rec.at
            /\ refs[i].updatedAtMs = rec.at
       /\ \E p \in DOMAIN rec.refsBefore :
            \A i \in DOMAIN refs : refs[i].key # rec.refsBefore[p].key

\* ------------------------------------------------------------------------
\* C33: the reconciliation of agent A updates and removes only jobs that were
\* created for agent A under the gtd namespace, for every pair of configured
\* agent ids, one being the beginning of the other included
\* ------------------------------------------------------------------------
\* the cron.update and cron.remove calls the last pass of the agent issued
Touching(agentId) ==
  SelectSeq(gsHist.rec[agentId].issued,
            LAMBDA call : call.method \in {"cron.update", "cron.remove"})

C33_PassTouchesOnlyItsAgentsJobs ==
  \A a \in AgentIds : \A i \in DOMAIN Touching(a) :
    <<Touching(a)[i].id, a>> \in gsHist.madeFor

\* a pass of agent a removed a job that the pass of agent a:b had added
C33_RemovedJobOfNestedAgent ==
  \E i \in DOMAIN Touching(<<"a">>) :
    /\ Touching(<<"a">>)[i].method = "cron.remove"
    /\ <<Touching(<<"a">>)[i].id, <<"a", ":", "b">> >> \in gsHist.madeFor

\* agent ab, whose id begins with a but holds no colon, keeps its jobs: no
\* pass of another agent touched a job made for it
C33_PlainPrefixIsKept ==
  \A a \in AgentIds \ {<<"a", "b">>} : \A i \in DOMAIN Touching(a) :
    <<Touching(a)[i].id, <<"a", "b">> >> \notin gsHist.madeFor

\* ------------------------------------------------------------------------
\* C34: when the effect of the calendar-sync job reports a failed sync, the
\* state saved holds an active action to reconnect Google Calendar auth, and
\* whatever the number of failed syncs at most one active action carries
\* that label
\* ------------------------------------------------------------------------
\* the runs of the calendar-sync job the last pass met whose sync failed
FailedSyncs ==
  {i \in DOMAIN gsHist.seen :
     /\ gsHist.seen[i].key = buildJobKey(gsHist.seen[i].agentId, <<"calendar-sync">>)
     /\ gsHist.seen[i].outcome = "failed"}

C34_FailedSyncLeavesOneRecoveryAction ==
  /\ \A i \in FailedSyncs :
       \E j \in DOMAIN gsHist.seen[i].actions :
         /\ gsHist.seen[i].actions[j].status = "active"
         /\ gsHist.seen[i].actions[j].textVerbFirst = CalendarAuthLabel
  /\ \A a \in AgentIds : Cardinality(ActiveWithLabel(gtdStore[a], CalendarAuthLabel)) <= 1

\* a second sync failed, and the action that the first one added is there
C34_Witness ==
  /\ FailedSyncs # {}
  /\ cron.fired = MaxCronRuns
  /\ \E a \in AgentIds :
       \E j \in ActiveWithLabel(gtdStore[a], CalendarAuthLabel) :
         /\ gtdStore[a].actions[j].createdAtMs > 0
         /\ gtdStore[a].actions[j].createdAtMs < wallClock

\* a sync failed while a finished action of the label was there: an active
\* one was added
C34_AddedNextToFinished ==
  \E a \in AgentIds :
    /\ Len(gtdStore[a].actions) = 2
    /\ gtdStore[a].actions[1].status = "done"
    /\ Cardinality(ActiveWithLabel(gtdStore[a], CalendarAuthLabel)) = 1

SchedulerAtRest ==
  /\ TicksInFlight = {}
  /\ svcEnv.firings = MaxFirings
  /\ svcEnv.started

\* two firings of the calendar sync completed between two ticks; the
\* scheduler is at rest and the handler never ran for the earlier one
C35_EarlierOfTwoFiringsSkipped ==
  /\ SchedulerAtRest
  /\ \E r1, r2 \in gsHist.completed :
       /\ r1[1] = buildJobKey(<<"a">>, <<"calendar-sync">>)
       /\ r2[1] = r1[1]
       /\ r1[2] < r2[2]
       /\ r1 \notin gsHist.invoked
       /\ r2 \in gsHist.invoked

\* the one-shot job of a waiting item ran and was deleted; the scheduler is
\* at rest and the handler never ran for that run
C35_OneShotRunSkipped ==
  /\ SchedulerAtRest
  /\ \E r \in gsHist.completed :
       /\ r[1] = buildJobKey(<<"a">>, <<"waiting", ":", "w1">>)
       /\ r \notin gsHist.invoked

\* ------------------------------------------------------------------------
\* C36 as claimed: a task newly registered has phase queued and terminal
\* false; whatever calls were made, the terminal flag of a task is true exactly
\* when its phase is done, failed or cancelled; registering a task id again
\* keeps its phase, terminal flag, attempt count and createdAt; and
\* markCodexHandoffHeartbeat sets lastHeartbeatAt to the time given and leaves
\* the phase
\* ------------------------------------------------------------------------
\* the task of the id of the last call, after it and before it
TaskAfter == handoffTasks[TaskIndex(handoffTasks, chHist.taskId)]
TaskBefore == chHist.before[TaskIndex(chHist.before, chHist.taskId)]
KnownAfter == TaskIndex(handoffTasks, chHist.taskId) # 0
KnownBefore == TaskIndex(chHist.before, chHist.taskId) # 0

TrackerAsClaimed ==
  /\ \A i \in DOMAIN handoffTasks :
       handoffTasks[i].terminal <=> handoffTasks[i].phase \in {"done", "failed", "cancelled"}
  /\ chHist.op = "register" /\ ~KnownBefore =>
       /\ KnownAfter
       /\ TaskAfter.phase = "queued"
       /\ TaskAfter.terminal = FALSE
  /\ chHist.op = "register" /\ KnownBefore =>
       /\ TaskAfter.phase = TaskBefore.phase
       /\ TaskAfter.terminal = TaskBefore.terminal
       /\ TaskAfter.attempt = TaskBefore.attempt
       /\ TaskAfter.createdAt = TaskBefore.createdAt
  /\ chHist.op = "heartbeat" /\ KnownBefore =>
       /\ TaskAfter.lastHeartbeatAt = chHist.atMs
       /\ TaskAfter.phase = TaskBefore.phase

C36_TrackerKeepsPhaseAndTerminal ==
  TrackerAsClaimed

\* the same for the task ids that hold no white space at their ends
C36_HoldsForTrimmedIds ==
  Trim(chHist.taskId) = chHist.taskId => TrackerAsClaimed

\* ------------------------------------------------------------------------
\* C40 as claimed: whatever calls of ensureCodexMonitorCron are made for a task
\* that is not terminal, two calls interleaved at the await of cron.add
\* included, cron.add is issued once and monitorCronJobId of the task names the
\* job that exists; for a terminal task, or with monitoring disabled, cron.add
\* is not issued
\* ------------------------------------------------------------------------
\* the ids of the monitor jobs created for the task id
MonitorJobsOf(taskId) ==
  {monitorCron.jobs[j].id :
     j \in {k \in DOMAIN monitorCron.jobs :
              monitorCron.jobs[k].name = MonitorJobName(taskId)}}

EnsureInFlight(taskId) ==
  \E s \in DOMAIN ensureCalls : ensureCalls[s].pc = "add" /\ ensureCalls[s].taskId = taskId

C40_OneMonitorJobPerTask ==
  /\ \A i \in DOMAIN handoffTasks :
       LET task == handoffTasks[i]
       IN ~task.terminal =>
            /\ Cardinality(MonitorJobsOf(task.taskId)) <= 1
            /\ MonitorJobsOf(task.taskId) # {} /\ ~EnsureInFlight(task.taskId)
                 => MonitorJobsOf(task.taskId) = {task.monitorCronJobId}
  /\ chHist.op = "ensure" /\ chHist.issued =>
       LET i == getCodexHandoffTask(chHist.before, chHist.taskId)
       IN /\ i # 0
          /\ ~chHist.before[i].terminal
          /\ chHist.cfgEnabled
          /\ chHist.before[i].monitorEnabled

\* two calls for one task met at the await of cron.add: both have answered,
\* two monitor jobs exist and the task names the later one
C40_TwoJobsForOneTask ==
  \E i \in DOMAIN handoffTasks :
    /\ ~handoffTasks[i].terminal
    /\ ~EnsureInFlight(handoffTasks[i].taskId)
    /\ MonitorJobsOf(handoffTasks[i].taskId) = {1, 2}
    /\ handoffTasks[i].monitorCronJobId \in {1, 2}

\* ------------------------------------------------------------------------
\* C37 as claimed: the step of a recovery pass that ends it, after the pass
\* was suspended at the await of a resume callback, leaves out of the store
\* every run that clearRunInFlight removed during the suspension and leaves in
\* the store every run that markRunInFlight registered during it
\* ------------------------------------------------------------------------
\* the pass read the run at line 232 and the store no longer holds it
ClearedSinceLoad(k) == MapHas(rc.loaded, k) /\ ~MapHas(StoredRuns, k)

\* the pass did not read the run at line 232 and the store holds it
MarkedSinceLoad(k) == ~MapHas(rc.loaded, k) /\ MapHas(StoredRuns, k)

PassEnds == rcPc = "awaiting" /\ rcPc' = "done"

C37_FinalRewriteKeepsClearsAndMarks ==
  [][ PassEnds =>
        \A k \in RunKeys :
          /\ ClearedSinceLoad(k) => ~MapHas(loadPersistedGatewayChatRuns(file'), k)
          /\ MarkedSinceLoad(k) => MapHas(loadPersistedGatewayChatRuns(file'), k) ]_vars

\* the half of it about the runs cleared
C37_ClearedRunStaysAbsent ==
  [][ PassEnds =>
        \A k \in RunKeys :
          ClearedSinceLoad(k) => ~MapHas(loadPersistedGatewayChatRuns(file'), k) ]_vars

\* the half of it about the runs registered
C37_MarkedRunStaysPresent ==
  [][ PassEnds =>
        \A k \in RunKeys :
          MarkedSinceLoad(k) => MapHas(loadPersistedGatewayChatRuns(file'), k) ]_vars

\* ------------------------------------------------------------------------
\* C38 as claimed: the state of an agent holds at most one last-processed
\* marker for a job key, and no step lowers the runAtMs of a marker: a step
\* that changes the marker of a key sets runAtMs to a greater timestamp
\* ------------------------------------------------------------------------
MarkersOf(state, key) ==
  {i \in DOMAIN state.scheduler.lastProcessedRuns :
     state.scheduler.lastProcessedRuns[i].key = key}

MarkedKeys(state) ==
  {state.scheduler.lastProcessedRuns[i].key : i \in DOMAIN state.scheduler.lastProcessedRuns}

\* what the state holds for the key: the markers of the key, in their order
MarkerRecords(state, key) ==
  SelectSeq(state.scheduler.lastProcessedRuns, LAMBDA m : m.key = key)

C38_MarkerIsUniqueAndIncreases ==
  [][ \A a \in AgentIds :
        \A key \in MarkedKeys(gtdStore[a]) \cup MarkedKeys(gtdStore'[a]) :
          /\ Cardinality(MarkersOf(gtdStore'[a], key)) <= 1
          /\ getLastProcessedRunAt(gtdStore'[a], key) >= getLastProcessedRunAt(gtdStore[a], key)
          /\ MarkerRecords(gtdStore'[a], key) # MarkerRecords(gtdStore[a], key)
               => getLastProcessedRunAt(gtdStore'[a], key)
                    > getLastProcessedRunAt(gtdStore[a], key) ]_vars

\* ---------------------------------------------------------------------------
\* C39: at most one scheduler tick of a service instance is in flight at any
\* time across its whole lifecycle, stop() during a running tick followed by
\* start() before that tick finishes included.
C39_AtMostOneTickInFlight == Cardinality(TicksInFlight) <= 1

\* While start() has been called once only, stop() or no stop(), at most one
\* tick is in flight.
C39_OneTickWithoutRestart ==
  svcEnv.starts <= 1 => Cardinality(TicksInFlight) <= 1

====
